---- MODULE Spec2Model ----
(***************************************************************************)
(* Agent discovery and registration layer of app/agents:                   *)
(*   base.py        AgentMetadata, AgentDefinition, AgentFilter            *)
(*   decorators.py  register_agent (the marker)                            *)
(*   registry.py    AgentRegistry (the registration store and the          *)
(*                  discovery engine)                                      *)
(*   manager.py     AgentManager (the facade)                              *)
(*   server.py      Server.__init__ (the consumer of the bulk handoff)     *)
(*                                                                         *)
(* Python values are represented as follows.                               *)
(*   - A function identifier is the sequence of its snake_case words:      *)
(*     create_x is <<"create", "x">>.  An agent name is the sequence of    *)
(*     its space-separated words: "Docs Agent" is <<"Docs", "Agent">>.     *)
(*   - A dict is the sequence of its entries in insertion order; every     *)
(*     entry carries its key in the field name.                            *)
(*   - A source file is the sequence of its top-level statements: a        *)
(*     function definition under @register_agent(...), or a statement      *)
(*     that raises.                                                        *)
(*   - A function object is a record naming the file and the statement     *)
(*     that created it.  Its field stale is a history field: it is set on  *)
(*     every object that exists when a discovery pass starts, so that an   *)
(*     object with stale = FALSE was created during or after the latest    *)
(*     pass.                                                               *)
(*   - A pending entry holds the function together with the metadata that  *)
(*     register_decorated_function attaches to it (func._agent_metadata).  *)
(*     The Definition promoted from it refers to the same metadata         *)
(*     object; enable/disable therefore updates both copies.               *)
(***************************************************************************)
EXTENDS Integers, Sequences, FiniteSets, TLC

VARIABLES
    source_files,               \* the files on disk: file -> statements
    agent_definitions,          \* AgentRegistry._agent_definitions
    decorated_functions,        \* AgentRegistry._decorated_functions
    discovery_paths,            \* AgentRegistry._discovery_paths
    discovery_completed,        \* AgentRegistry._discovery_completed
    module_modification_times,  \* keys of _module_modification_times / _cached_modules
    failed_imports,             \* AgentRegistry._failed_imports
    _initialized,               \* AgentRegistry._instance._initialized (FALSE: no instance yet)
    promote_log,                \* history: arguments of _register_agent_definition since the last clear
    executed,                   \* history: files executed (exec_module) by the last operation
    called,                     \* history: factories invoked by the last operation
    invoked,                    \* history: marked functions that the files executed
                                \* by the last operation called themselves
    environ,                    \* os.environ: DEBUG, ENVIRONMENT, DISABLE_MCP
    lazy_list,                  \* the _LazyMCPList that MCPManager.get returned last
    _cache,                     \* MCPManager._cache (its keys)
    initialized_providers,      \* ProviderRegistry.initialized_providers
    model_registry,             \* keys of ProviderRegistry.model_registry
    metadata_registry,          \* keys of ProviderRegistry.metadata_registry
    provider_defaults,          \* ProviderRegistry.provider_defaults
    register_calls,             \* history: the calls of the register functions
    lastOp                      \* history: the last operation, its arguments and its outcome

vars == <<source_files, agent_definitions, decorated_functions, discovery_paths,
          discovery_completed, module_modification_times, failed_imports,
          _initialized, promote_log, executed, called, invoked,
          environ, lazy_list, _cache, initialized_providers, model_registry,
          metadata_registry, provider_defaults, register_calls, lastOp>>

-----------------------------------------------------------------------------
(* Bounds of the model *)

\* Number of direct calls of _register_agent_definition between two clears.
MaxPromotes == 3

-----------------------------------------------------------------------------
(* Dicts as insertion-ordered sequences of entries keyed by .name *)

DictKeys(d) == {d[i].name : i \in DOMAIN d}

DictIndex(d, k) == CHOOSE i \in DOMAIN d : d[i].name = k

DictGet(d, k) == d[DictIndex(d, k)]

\* d[k] = v: a new key is appended, an existing key keeps its position.
DictSet(d, k, v) ==
    IF k \in DictKeys(d) THEN [d EXCEPT ![DictIndex(d, k)] = v] ELSE Append(d, v)

SeqToSet(s) == {s[i] : i \in DOMAIN s}

Orderings(S) ==
    {p \in [1..Cardinality(S) -> S] : \A i, j \in 1..Cardinality(S) : p[i] = p[j] => i = j}

-----------------------------------------------------------------------------
(* base.py *)

\* AgentMetadata.__post_init__: the name is a non-empty string and the
\* priority a non-negative integer.
MetadataValid(name, priority) ==
    /\ name # <<>>
    /\ priority >= 0

\* custom_attributes is a dict, modelled as a set of <<key, value>> pairs
\* with one pair for each key.
AgentMetadata(name, tags, priority, enabled, custom_attributes) ==
    [name |-> name, pattern |-> "DECORATOR", tags |-> tags,
     priority |-> priority, enabled |-> enabled,
     custom_attributes |-> custom_attributes]

\* AgentDefinition.__post_init__: the name is non-empty and equals
\* metadata.name; the source file is 'unknown' or exists.
DefinitionValid(name, metadata, source_file) ==
    /\ name # <<>>
    /\ name = metadata.name
    /\ (source_file = "unknown" \/ source_file \in DOMAIN source_files)

AgentDefinition(name, factory_func, metadata, module_path, source_file) ==
    [name |-> name, factory_function |-> factory_func, metadata |-> metadata,
     module_path |-> module_path, source_file |-> source_file]

-----------------------------------------------------------------------------
(* The source tree *)

\* str.title() on one lower-case word.
TitleWord(w) ==
    CASE w = "x" -> "X"
      [] w = "y" -> "Y"
      [] w = "z" -> "Z"
      [] w = "hidden" -> "Hidden"
      [] w = "create" -> "Create"
      [] OTHER -> w

\* A function definition decorated with @register_agent(tags, priority, enabled);
\* raises tells whether calling the function raises.
Marker(func_name, priority, enabled, tags, raises) ==
    [kind |-> "marker", func_name |-> func_name, priority |-> priority,
     enabled |-> enabled, tags |-> tags, raises |-> raises,
     custom_attributes |-> {}]

\* The same function decorated with further keyword arguments, which
\* register_agent collects in **custom_attributes.
WithAttributes(stmt, custom_attributes) ==
    [stmt EXCEPT !.custom_attributes = custom_attributes]

\* A top-level statement that raises an exception when executed.
RaiseStmt == [kind |-> "raise"]

\* The top-level statement of definitions/docs_agent.py that calls, inside
\* try/except, the marked function defined by statement number target of
\* the same file.
CallStmt(target) == [kind |-> "call", target |-> target]

DefCreateX == Marker(<<"create", "x">>, 10, TRUE, <<"core">>, FALSE)
DefX == Marker(<<"x">>, 90, TRUE, <<"docs">>, TRUE)
DefCreateY == Marker(<<"create", "y">>, 50, FALSE, <<"core", "docs">>, TRUE)
DefCreateZ == Marker(<<"create", "z">>, 70, TRUE, <<>>, FALSE)
DefY == Marker(<<"y">>, 70, TRUE, <<"docs">>, FALSE)
DefNegative == Marker(<<"create", "z">>, -1, TRUE, <<>>, FALSE)
DefHidden == Marker(<<"create", "hidden">>, 50, TRUE, <<>>, FALSE)
DefXTie == Marker(<<"x">>, 10, FALSE, <<"docs">>, FALSE)

\* The files and their location: definitions/a.py, definitions/b.py,
\* definitions/notes.txt, agents/c.py, agents/base.py, extra/d.py,
\* empty/__init__.py.
FileTable ==
    [a |-> [dir |-> "definitions", dunder |-> FALSE, stem |-> "a", ext |-> "py"],
     b |-> [dir |-> "definitions", dunder |-> FALSE, stem |-> "b", ext |-> "py"],
     init |-> [dir |-> "empty", dunder |-> TRUE, stem |-> "init__", ext |-> "py"],
     notes |-> [dir |-> "definitions", dunder |-> FALSE, stem |-> "notes", ext |-> "txt"],
     c |-> [dir |-> "agents", dunder |-> FALSE, stem |-> "c", ext |-> "py"],
     base |-> [dir |-> "agents", dunder |-> FALSE, stem |-> "base", ext |-> "py"],
     d |-> [dir |-> "extra", dunder |-> FALSE, stem |-> "d", ext |-> "py"]]

Files == DOMAIN FileTable

\* The files of the second default path that implement the discovery
\* engine itself: agents/base.py stands for base.py, registry.py,
\* decorators.py, manager.py.  base.py defines classes and marks no function.
EngineFiles == {"base"}

Dirs == {"definitions", "agents", "extra", "empty"}

\* The contents the model tries for definitions/a.py and definitions/b.py.
AContents == {<<DefCreateX>>, <<DefCreateX, DefX>>, <<DefCreateY, RaiseStmt, DefCreateZ>>}
BContents == {<<DefX>>, <<DefXTie>>, <<DefNegative, DefX>>}

SourceTrees ==
    {[a |-> ca, b |-> cb, init |-> <<DefHidden>>, notes |-> <<DefHidden>>,
      c |-> <<DefCreateZ>>, base |-> <<>>, d |-> <<DefY>>] :
        ca \in AContents, cb \in BContents}

\* Functions decorated outside of any discovery pass (application modules
\* loaded by an ordinary import).
AppDefs == {DefY}

\* path.glob("*.py"): the entries of the directory matching the pattern.
GlobPy(path) == {f \in Files : FileTable[f].dir = path /\ FileTable[f].ext = "py"}

\* The orders in which glob may yield the entries of each directory.
GlobOrders ==
    [definitions : Orderings(GlobPy("definitions")),
     agents : Orderings(GlobPy("agents")),
     extra : Orderings(GlobPy("extra")),
     empty : Orderings(GlobPy("empty"))]

\* An order for the calls that never reach path.glob.
OneOrder == CHOOSE order \in GlobOrders : TRUE

\* The orders glob may yield in a call of discover_agents: the call lists
\* the directories only when it runs a pass.
OrdersIf(runs) == IF runs THEN GlobOrders ELSE {OneOrder}

-----------------------------------------------------------------------------
(* registry.py: the registry as a record, and the methods as operators *)

Reg ==
    [agent_definitions |-> agent_definitions,
     decorated_functions |-> decorated_functions,
     discovery_paths |-> discovery_paths,
     discovery_completed |-> discovery_completed,
     module_modification_times |-> module_modification_times,
     failed_imports |-> failed_imports,
     _initialized |-> _initialized,
     promote_log |-> promote_log,
     executed |-> <<>>,
     invoked |-> <<>>]

\* AgentRegistry.__init__ with _setup_default_discovery_paths.
NewRegistry ==
    [agent_definitions |-> <<>>,
     decorated_functions |-> <<>>,
     discovery_paths |-> <<"definitions", "agents">>,
     discovery_completed |-> FALSE,
     module_modification_times |-> {},
     failed_imports |-> {},
     _initialized |-> TRUE,
     promote_log |-> <<>>,
     executed |-> <<>>,
     invoked |-> <<>>]

\* The class before its first construction: _instance is None and no
\* attribute of the store exists yet.
Unconstructed ==
    [NewRegistry EXCEPT !.discovery_paths = <<>>, !._initialized = FALSE]

\* __init__ without the test of _initialized.
init_resets(R) == NewRegistry

\* AgentRegistry(): __new__ hands out the one instance, creating it with
\* _initialized = False when there is none, and __init__ fills it unless
\* it is initialized already.
AgentRegistry__init__(R) == IF R._initialized THEN R ELSE NewRegistry

\* register_decorated_function without the test for an existing entry: the
\* last registration of a name replaces the pending one.
register_pending_overwrites(R, name, func, metadata) ==
    [R EXCEPT !.decorated_functions =
        DictSet(@, name, [name |-> name, func |-> func, agent_metadata |-> metadata])]

\* register_decorated_function that installs a Definition at once when the
\* discovery has completed already.
register_promotes_when_discovered(R, name, func, metadata) ==
    LET kept == IF name \in DictKeys(R.decorated_functions)
                THEN R
                ELSE [R EXCEPT !.decorated_functions =
                        Append(@, [name |-> name, func |-> func,
                                   agent_metadata |-> metadata])]
    IN  IF R.discovery_completed /\ name \notin DictKeys(R.agent_definitions)
        THEN [kept EXCEPT !.agent_definitions =
                DictSet(@, name, AgentDefinition(name, func, metadata, func.src, "unknown"))]
        ELSE kept

\* AgentRegistry.register_decorated_function
register_decorated_function(R, name, func, metadata) ==
    IF name \in DictKeys(R.decorated_functions)
    THEN R
    ELSE [R EXCEPT !.decorated_functions =
            Append(@, [name |-> name, func |-> func, agent_metadata |-> metadata])]

\* _register_agent_definition with the comparison > in place of >=: a
\* registration of equal priority replaces the stored one.
register_ties_replace(R, name, factory_func, metadata, module_path, source_file) ==
    LET logged == [R EXCEPT !.promote_log =
                     Append(@, [name |-> name, factory_function |-> factory_func,
                                priority |-> metadata.priority])]
    IN  IF /\ name \in DictKeys(R.agent_definitions)
           /\ DictGet(R.agent_definitions, name).metadata.priority > metadata.priority
        THEN logged
        ELSE IF ~DefinitionValid(name, metadata, source_file)
        THEN logged
        ELSE [logged EXCEPT !.agent_definitions =
                DictSet(@, name,
                        AgentDefinition(name, factory_func, metadata, module_path, source_file))]

\* _register_agent_definition without the priority check: the last call wins.
register_last_wins(R, name, factory_func, metadata, module_path, source_file) ==
    LET logged == [R EXCEPT !.promote_log =
                     Append(@, [name |-> name, factory_function |-> factory_func,
                                priority |-> metadata.priority])]
    IN  IF ~DefinitionValid(name, metadata, source_file)
        THEN logged
        ELSE [logged EXCEPT !.agent_definitions =
                DictSet(@, name,
                        AgentDefinition(name, factory_func, metadata, module_path, source_file))]

\* _register_agent_definition storing the Definition without the validation
\* of AgentDefinition.__post_init__.
register_without_validation(R, name, factory_func, metadata, module_path, source_file) ==
    LET logged == [R EXCEPT !.promote_log =
                     Append(@, [name |-> name, factory_function |-> factory_func,
                                priority |-> metadata.priority])]
    IN  IF /\ name \in DictKeys(R.agent_definitions)
           /\ DictGet(R.agent_definitions, name).metadata.priority >= metadata.priority
        THEN logged
        ELSE [logged EXCEPT !.agent_definitions =
                DictSet(@, name,
                        AgentDefinition(name, factory_func, metadata, module_path, source_file))]

\* AgentRegistry._register_agent_definition
_register_agent_definition(R, name, factory_func, metadata, module_path, source_file) ==
    LET logged == [R EXCEPT !.promote_log =
                     Append(@, [name |-> name, factory_function |-> factory_func,
                                priority |-> metadata.priority])]
    IN  IF /\ name \in DictKeys(R.agent_definitions)
           /\ DictGet(R.agent_definitions, name).metadata.priority >= metadata.priority
        THEN logged
        ELSE IF ~DefinitionValid(name, metadata, source_file)
        THEN logged
        ELSE [logged EXCEPT !.agent_definitions =
                DictSet(@, name,
                        AgentDefinition(name, factory_func, metadata, module_path, source_file))]

\* clear_registry without the reset of the modification times and the
\* module cache.
clear_keeps_modification_times(R) ==
    [R EXCEPT !.agent_definitions = <<>>,
              !.decorated_functions = <<>>,
              !.failed_imports = {},
              !.discovery_completed = FALSE,
              !.promote_log = <<>>]

\* clear_registry without the reset of _agent_definitions.
clear_keeps_definitions(R) ==
    [R EXCEPT !.decorated_functions = <<>>,
              !.module_modification_times = {},
              !.failed_imports = {},
              !.discovery_completed = FALSE]

\* clear_registry without the reset of _decorated_functions.
clear_keeps_pending(R) ==
    [R EXCEPT !.agent_definitions = <<>>,
              !.module_modification_times = {},
              !.failed_imports = {},
              !.discovery_completed = FALSE,
              !.promote_log = <<>>]

\* AgentRegistry.clear_registry
clear_registry(R) ==
    [R EXCEPT !.agent_definitions = <<>>,
              !.decorated_functions = <<>>,
              !.module_modification_times = {},
              !.failed_imports = {},
              !.discovery_completed = FALSE,
              !.promote_log = <<>>]

-----------------------------------------------------------------------------
(* decorators.py *)

\* register_agent.decorator: the agent name derived from the function name.
AgentNameOf(func_name) ==
    LET stripped == IF Len(func_name) >= 2 /\ Head(func_name) = "create"
                    THEN Tail(func_name) ELSE func_name
    IN  [i \in DOMAIN stripped |-> TitleWord(stripped[i])]

\* register_agent.decorator applied by statement number line of file src.
\* raised: AgentMetadata rejected the arguments and the ValueError leaves
\* the decorator.
decorator(R, stmt, src, line) ==
    LET agent_name == AgentNameOf(stmt.func_name)
        func == [src |-> src, line |-> line, func_name |-> stmt.func_name,
                 raises |-> stmt.raises, stale |-> FALSE]
    IN  IF ~MetadataValid(agent_name, stmt.priority)
        THEN [R |-> R, raised |-> TRUE]
        ELSE [R |-> register_decorated_function(
                        R, agent_name, func,
                        AgentMetadata(agent_name, stmt.tags, stmt.priority, stmt.enabled,
                                      stmt.custom_attributes)),
              raised |-> FALSE]

-----------------------------------------------------------------------------
(* registry.py: the discovery engine *)

\* spec.loader.exec_module(module): the statements of the file from
\* statement i on, stopping at the first one that raises.
RECURSIVE exec_module(_, _, _)
exec_module(R, f, i) ==
    IF i > Len(source_files[f])
    THEN [R |-> R, raised |-> FALSE]
    ELSE LET stmt == source_files[f][i]
         IN  IF stmt.kind = "raise"
             THEN [R |-> R, raised |-> TRUE]
             ELSE IF stmt.kind = "call"
             THEN LET marked == source_files[f][stmt.target]
                      func == [src |-> f, line |-> stmt.target,
                               func_name |-> marked.func_name,
                               raises |-> marked.raises, stale |-> FALSE]
                  IN  exec_module([R EXCEPT !.invoked = Append(@, func)], f, i + 1)
             ELSE LET d == decorator(R, stmt, f, i)
                  IN  IF d.raised THEN d ELSE exec_module(d.R, f, i + 1)

\* _import_module_from_file that undoes the registrations of a file whose
\* execution raised.
import_rolls_back(R, f) ==
    IF f \in R.module_modification_times
    THEN R
    ELSE LET e == exec_module([R EXCEPT !.executed = Append(@, f)], f, 1)
         IN  IF e.raised
             THEN [e.R EXCEPT !.decorated_functions = R.decorated_functions,
                              !.failed_imports = @ \cup {f}]
             ELSE [e.R EXCEPT !.module_modification_times = @ \cup {f}]

\* AgentRegistry._import_module_from_file.  The files do not change, so a
\* recorded modification time is never older than the current one.
_import_module_from_file(R, f) ==
    IF f \in R.module_modification_times
    THEN R
    ELSE LET e == exec_module([R EXCEPT !.executed = Append(@, f)], f, 1)
         IN  IF e.raised
             THEN [e.R EXCEPT !.failed_imports = @ \cup {f}]
             ELSE [e.R EXCEPT !.module_modification_times = @ \cup {f}]

\* _scan_path_for_modules with the failure of an import ending the scan of
\* the path (the exception handled around the loop instead of per file).
RECURSIVE scan_stops_at_failure(_, _, _)
scan_stops_at_failure(R, files, i) ==
    IF i > Len(files)
    THEN R
    ELSE IF FileTable[files[i]].dunder
    THEN scan_stops_at_failure(R, files, i + 1)
    ELSE IF files[i] \in _import_module_from_file(R, files[i]).failed_imports
    THEN _import_module_from_file(R, files[i])
    ELSE scan_stops_at_failure(_import_module_from_file(R, files[i]), files, i + 1)

\* _scan_path_for_modules without the test of the "__" prefix: every entry
\* that glob yields is imported.
RECURSIVE scan_imports_dunder(_, _, _)
scan_imports_dunder(R, files, i) ==
    IF i > Len(files)
    THEN R
    ELSE scan_imports_dunder(_import_module_from_file(R, files[i]), files, i + 1)

\* AgentRegistry._scan_path_for_modules over the entries files[i..] that
\* glob yields.
RECURSIVE _scan_path_for_modules(_, _, _)
_scan_path_for_modules(R, files, i) ==
    IF i > Len(files)
    THEN R
    ELSE IF FileTable[files[i]].dunder
    THEN _scan_path_for_modules(R, files, i + 1)
    ELSE _scan_path_for_modules(_import_module_from_file(R, files[i]), files, i + 1)

\* The entries path.glob("*.py") yields: none for a path that does not exist.
GlobOf(order, path) == IF path \in DOMAIN order THEN order[path] ELSE <<>>

\* The first loop of _discover_decorator_pattern ending after the path
\* number i.
scan_one_path(R, order, i) ==
    IF i > Len(R.discovery_paths)
    THEN R
    ELSE _scan_path_for_modules(R, GlobOf(order, R.discovery_paths[i]), 1)

\* The first loop of _discover_decorator_pattern, from path number i on.
RECURSIVE ScanPaths(_, _, _)
ScanPaths(R, order, i) ==
    IF i > Len(R.discovery_paths)
    THEN R
    ELSE ScanPaths(_scan_path_for_modules(R, GlobOf(order, R.discovery_paths[i]), 1),
                   order, i + 1)

\* The second loop of _discover_decorator_pattern, from entry number i of
\* _decorated_functions on.  A function has no __file__ attribute, so the
\* source file passed on is 'unknown'.
RECURSIVE PromotePending(_, _)
PromotePending(R, i) ==
    IF i > Len(R.decorated_functions)
    THEN R
    ELSE LET e == R.decorated_functions[i]
         IN  IF e.name \notin DictKeys(R.agent_definitions)
             THEN PromotePending(
                    _register_agent_definition(R, e.name, e.func, e.agent_metadata,
                                               e.func.src, "unknown"),
                    i + 1)
             ELSE PromotePending(R, i + 1)

\* _discover_decorator_pattern with its two loops exchanged: the pending
\* registrations are promoted before the files are imported.
promote_before_scan(R, order) == ScanPaths(PromotePending(R, 1), order, 1)

\* AgentRegistry._discover_decorator_pattern
_discover_decorator_pattern(R, order) == PromotePending(ScanPaths(R, order, 1), 1)

\* History only: every function object that exists now is marked stale.
Age(R) ==
    [R EXCEPT
        !.agent_definitions =
            [i \in DOMAIN @ |-> [@[i] EXCEPT !.factory_function.stale = TRUE]],
        !.decorated_functions =
            [i \in DOMAIN @ |-> [@[i] EXCEPT !.func.stale = TRUE]],
        !.promote_log =
            [i \in DOMAIN @ |-> [@[i] EXCEPT !.factory_function.stale = TRUE]]]

\* discover_agents without the test of the latch: every call scans.
discover_always_scans(R, force_refresh, order) ==
    LET aged == Age(R)
        start == IF force_refresh THEN clear_registry(aged) ELSE aged
    IN  [_discover_decorator_pattern(start, order) EXCEPT !.discovery_completed = TRUE]

\* AgentRegistry.discover_agents.  DiscoveryPattern has the single member
\* DECORATOR, so the loop over the patterns runs the decorator pattern once.
discover_agents(R, force_refresh, order) ==
    IF R.discovery_completed /\ ~force_refresh
    THEN R
    ELSE LET aged == Age(R)
             start == IF force_refresh THEN clear_registry(aged) ELSE aged
         IN  [_discover_decorator_pattern(start, order) EXCEPT !.discovery_completed = TRUE]


\* AgentRegistry.add_discovery_path; Path(path).resolve() is Resolve.
Resolve(path) ==
    CASE path = "definitions/." -> "definitions"
      [] path = "extra/." -> "extra"
      [] OTHER -> path

\* Path.exists()
PathExists(path) == Resolve(path) \in Dirs

\* add_discovery_path with the path stored as it was given.
add_path_as_given(R, path) ==
    IF path \in SeqToSet(R.discovery_paths)
    THEN R
    ELSE [R EXCEPT !.discovery_paths = Append(@, path)]

add_discovery_path(R, path) ==
    IF Resolve(path) \in SeqToSet(R.discovery_paths)
    THEN R
    ELSE [R EXCEPT !.discovery_paths = Append(@, Resolve(path))]

\* AgentRegistry.remove_discovery_path (list.remove: the first occurrence).
remove_discovery_path(R, path) ==
    IF Resolve(path) \in SeqToSet(R.discovery_paths)
    THEN LET k == CHOOSE i \in DOMAIN R.discovery_paths :
                    /\ R.discovery_paths[i] = Resolve(path)
                    /\ \A j \in 1..(i - 1) : R.discovery_paths[j] # Resolve(path)
         IN  [R EXCEPT !.discovery_paths =
                SubSeq(@, 1, k - 1) \o SubSeq(@, k + 1, Len(@))]
    ELSE R

\* The assignment made to the metadata of every Definition of the store.
set_enabled_everywhere(R, name, value) ==
    [R EXCEPT
        !.agent_definitions = [i \in DOMAIN @ |-> [@[i] EXCEPT !.metadata.enabled = value]]]

\* The assignment agent_def.metadata.enabled = value of enable_agent and
\* disable_agent.  The metadata object is shared with the pending entry of
\* the same function.
SetEnabled(R, name, value) ==
    LET func == DictGet(R.agent_definitions, name).factory_function
    IN  [R EXCEPT
            !.agent_definitions =
                [i \in DOMAIN @ |->
                    IF @[i].name = name
                    THEN [@[i] EXCEPT !.metadata.enabled = value] ELSE @[i]],
            !.decorated_functions =
                [i \in DOMAIN @ |->
                    IF @[i].func = func /\ @[i].name = name
                    THEN [@[i] EXCEPT !.agent_metadata.enabled = value] ELSE @[i]]]

\* AgentRegistry.enable_agent / disable_agent: the registry afterwards.
enable_agent(R, name) ==
    IF name \in DictKeys(R.agent_definitions) THEN SetEnabled(R, name, TRUE) ELSE R

disable_agent(R, name) ==
    IF name \in DictKeys(R.agent_definitions) THEN SetEnabled(R, name, FALSE) ELSE R

-----------------------------------------------------------------------------
(* base.py: AgentFilter, and registry.py: list_agents *)

NoneValue == [some |-> FALSE]

Some(v) == [some |-> TRUE, val |-> v]

\* custom_criteria is a dict, modelled as a set of <<key, value>> pairs.
AgentFilter(tags, enabled, pattern, priority_min, priority_max, custom_criteria) ==
    [tags |-> tags, enabled |-> enabled, pattern |-> pattern,
     priority_min |-> priority_min, priority_max |-> priority_max,
     custom_criteria |-> custom_criteria]

\* matches with a tags criterion that requires every tag of the filter.
matches_every_tag(filter, agent_def) ==
    LET metadata == agent_def.metadata
    IN  /\ ~(filter.enabled.some /\ metadata.enabled # filter.enabled.val)
        /\ ~(filter.pattern.some /\ metadata.pattern # filter.pattern.val)
        /\ ~(filter.priority_min.some /\ metadata.priority < filter.priority_min.val)
        /\ ~(filter.priority_max.some /\ metadata.priority > filter.priority_max.val)
        /\ ~(/\ filter.tags.some
             /\ filter.tags.val # <<>>
             /\ ~\A t \in SeqToSet(filter.tags.val) : t \in SeqToSet(metadata.tags))
        /\ \A c \in filter.custom_criteria :
                /\ \E a \in metadata.custom_attributes : a[1] = c[1]
                /\ \A a \in metadata.custom_attributes : a[1] = c[1] => a[2] = c[2]

\* AgentFilter.matches
matches(filter, agent_def) ==
    LET metadata == agent_def.metadata
    IN  /\ ~(filter.enabled.some /\ metadata.enabled # filter.enabled.val)
        /\ ~(filter.pattern.some /\ metadata.pattern # filter.pattern.val)
        /\ ~(filter.priority_min.some /\ metadata.priority < filter.priority_min.val)
        /\ ~(filter.priority_max.some /\ metadata.priority > filter.priority_max.val)
        /\ ~(/\ filter.tags.some
             /\ filter.tags.val # <<>>
             /\ ~\E t \in SeqToSet(filter.tags.val) : t \in SeqToSet(metadata.tags))
        /\ \A c \in filter.custom_criteria :
                /\ \E a \in metadata.custom_attributes : a[1] = c[1]
                /\ \A a \in metadata.custom_attributes : a[1] = c[1] => a[2] = c[2]

\* Position of a capitalised word in the order of Python string comparison.
WordRank(w) ==
    CASE w = "Create" -> 1
      [] w = "Hidden" -> 2
      [] w = "X" -> 3
      [] w = "Y" -> 4
      [] w = "Z" -> 5
      [] OTHER -> 6

\* n1 < n2 for two names: a space sorts before every letter, so the names
\* compare word by word and a proper prefix comes first.
RECURSIVE NameLess(_, _)
NameLess(n1, n2) ==
    IF n2 = <<>> THEN FALSE
    ELSE IF n1 = <<>> THEN TRUE
    ELSE IF Head(n1) # Head(n2) THEN WordRank(Head(n1)) < WordRank(Head(n2))
    ELSE NameLess(Tail(n1), Tail(n2))

\* The sort key (-a.metadata.priority, a.name) of list_agents: a sorts
\* strictly before b.
KeyLess(a, b) ==
    \/ a.metadata.priority > b.metadata.priority
    \/ a.metadata.priority = b.metadata.priority /\ NameLess(a.name, b.name)

\* The sort with the key -a.metadata.priority alone: Definitions of equal
\* priority stay in the order of the mapping.
RECURSIVE sort_by_priority_only(_)
sort_by_priority_only(s) ==
    IF s = <<>> THEN <<>>
    ELSE LET rest == sort_by_priority_only(SubSeq(s, 1, Len(s) - 1))
             x == s[Len(s)]
             k == Cardinality({i \in DOMAIN rest :
                                rest[i].metadata.priority >= x.metadata.priority})
         IN  SubSeq(rest, 1, k) \o <<x>> \o SubSeq(rest, k + 1, Len(rest))

\* list.sort(key=...): a stable sort, as the insertion of each element
\* after the last element that does not sort after it.
RECURSIVE SortByKey(_)
SortByKey(s) ==
    IF s = <<>> THEN <<>>
    ELSE LET rest == SortByKey(SubSeq(s, 1, Len(s) - 1))
             x == s[Len(s)]
             k == Cardinality({i \in DOMAIN rest : ~KeyLess(x, rest[i])})
         IN  SubSeq(rest, 1, k) \o <<x>> \o SubSeq(rest, k + 1, Len(rest))

\* The elements of s that satisfy the filter, in the order of s.
RECURSIVE FilterSeq(_, _)
FilterSeq(s, filter) ==
    IF s = <<>> THEN <<>>
    ELSE IF matches(filter, Head(s))
    THEN <<Head(s)>> \o FilterSeq(Tail(s), filter)
    ELSE FilterSeq(Tail(s), filter)

NoFilter == AgentFilter(NoneValue, NoneValue, NoneValue, NoneValue, NoneValue, {})

\* AgentRegistry.list_agents
list_agents(R, filter) == SortByKey(FilterSeq(R.agent_definitions, filter))

-----------------------------------------------------------------------------
(* manager.py *)

\* What a raise statement leaves the caller with: no return value.
Raised(exc, failed) ==
    [kind |-> "raise", exc |-> exc, none |-> FALSE, flag |-> FALSE,
     count |-> 0, value |-> <<>>, failed |-> failed]

ReturnedNone ==
    [kind |-> "return", exc |-> "", none |-> TRUE, flag |-> FALSE,
     count |-> 0, value |-> <<>>, failed |-> <<>>]

ReturnedBool(b) ==
    [kind |-> "return", exc |-> "", none |-> FALSE, flag |-> b,
     count |-> 0, value |-> <<>>, failed |-> <<>>]

ReturnedCount(n) ==
    [kind |-> "return", exc |-> "", none |-> FALSE, flag |-> FALSE,
     count |-> n, value |-> <<>>, failed |-> <<>>]

ReturnedValue(v) ==
    [kind |-> "return", exc |-> "", none |-> FALSE, flag |-> FALSE,
     count |-> 0, value |-> v, failed |-> <<>>]

\* The object a factory returns, and str(e) of the exception it raises.
AgentOf(func) == [made_by |-> [src |-> func.src, line |-> func.line]]

ErrorOf(func) == [raised_by |-> [src |-> func.src, line |-> func.line]]

\* The loop over the paths of AgentManager.discover without the test of
\* path_obj.exists(): every path is added.
RECURSIVE add_paths_unchecked(_, _, _)
add_paths_unchecked(R, paths, i) ==
    IF i > Len(paths)
    THEN [R |-> R, raised |-> FALSE]
    ELSE add_paths_unchecked(add_discovery_path(R, paths[i]), paths, i + 1)

\* The loop over the paths of AgentManager.discover with all paths tested
\* before the first one is added: a refused call adds none.
add_paths_all_or_nothing(R, paths, i) ==
    IF \E k \in i..Len(paths) : ~PathExists(paths[k])
    THEN [R |-> R, raised |-> TRUE]
    ELSE add_paths_unchecked(R, paths, i)

\* The loop over the paths of AgentManager.discover, from path number i
\* on: the first path that does not exist raises ValueError.
RECURSIVE AddPaths(_, _, _)
AddPaths(R, paths, i) ==
    IF i > Len(paths)
    THEN [R |-> R, raised |-> FALSE]
    ELSE IF ~PathExists(paths[i])
    THEN [R |-> R, raised |-> TRUE]
    ELSE AddPaths(add_discovery_path(R, paths[i]), paths, i + 1)

\* AgentManager.discover that forces a pass whenever the call has added a
\* path.
discover_scans_new_paths(R, paths, force_refresh, order) ==
    LET added == AddPaths(R, paths, 1)
    IN  IF added.raised
        THEN [R |-> added.R, ret |-> Raised("ValueError", <<>>)]
        ELSE LET done == discover_agents(
                            added.R,
                            force_refresh \/ added.R.discovery_paths # R.discovery_paths,
                            order)
             IN  [R |-> done, ret |-> ReturnedCount(Len(list_agents(done, NoFilter)))]

\* AgentManager.discover(paths, force_refresh)
manager_discover(R, paths, force_refresh, order) ==
    LET added == AddPaths(R, paths, 1)
    IN  IF added.raised
        THEN [R |-> added.R, ret |-> Raised("ValueError", <<>>)]
        ELSE LET done == discover_agents(added.R, force_refresh, order)
             IN  [R |-> done, ret |-> ReturnedCount(Len(list_agents(done, NoFilter)))]

\* get_enabled returning the enabled Definitions in the order of the
\* mapping, without the sort.
get_enabled_unsorted(R) ==
    FilterSeq(R.agent_definitions,
              AgentFilter(NoneValue, Some(TRUE), NoneValue, NoneValue, NoneValue, {}))

\* AgentManager.get_enabled
get_enabled(R) ==
    list_agents(R, AgentFilter(NoneValue, Some(TRUE), NoneValue, NoneValue, NoneValue, {}))

\* create_agent without the test of metadata.enabled.
create_agent_ignores_enabled(R, name) ==
    IF name = <<>>
    THEN [ret |-> ReturnedNone, called |-> <<>>]
    ELSE IF name \notin DictKeys(R.agent_definitions)
    THEN [ret |-> ReturnedNone, called |-> <<>>]
    ELSE LET func == DictGet(R.agent_definitions, name).factory_function
         IN  IF func.raises
             THEN [ret |-> Raised("RuntimeError",
                                  <<[name |-> name, error |-> ErrorOf(func)]>>),
                   called |-> <<func>>]
             ELSE [ret |-> ReturnedValue(<<AgentOf(func)>>), called |-> <<func>>]

\* create_agent without the except clause: the exception of the factory
\* reaches the caller as it was raised.
create_agent_reraises(R, name) ==
    IF name = <<>>
    THEN [ret |-> ReturnedNone, called |-> <<>>]
    ELSE IF name \notin DictKeys(R.agent_definitions)
    THEN [ret |-> ReturnedNone, called |-> <<>>]
    ELSE LET agent_def == DictGet(R.agent_definitions, name)
             func == agent_def.factory_function
         IN  IF ~agent_def.metadata.enabled
             THEN [ret |-> ReturnedNone, called |-> <<>>]
             ELSE IF func.raises
             THEN [ret |-> Raised("FactoryError", <<>>), called |-> <<func>>]
             ELSE [ret |-> ReturnedValue(<<AgentOf(func)>>), called |-> <<func>>]

\* AgentManager.create_agent(name): the outcome and the factories invoked.
\* The empty name is the falsy argument.
create_agent(R, name) ==
    IF name = <<>>
    THEN [ret |-> ReturnedNone, called |-> <<>>]
    ELSE IF name \notin DictKeys(R.agent_definitions)
    THEN [ret |-> ReturnedNone, called |-> <<>>]
    ELSE LET agent_def == DictGet(R.agent_definitions, name)
             func == agent_def.factory_function
         IN  IF ~agent_def.metadata.enabled
             THEN [ret |-> ReturnedNone, called |-> <<>>]
             ELSE IF func.raises
             THEN [ret |-> Raised("RuntimeError",
                                  <<[name |-> name, error |-> ErrorOf(func)]>>),
                   called |-> <<func>>]
             ELSE [ret |-> ReturnedValue(<<AgentOf(func)>>), called |-> <<func>>]

\* The loop of create_enabled_agents leaving at the first factory that raises.
RECURSIVE create_loop_stops_at_failure(_, _, _)
create_loop_stops_at_failure(enabled_agents, i, acc) ==
    IF i > Len(enabled_agents)
    THEN acc
    ELSE LET agent_def == enabled_agents[i]
             func == agent_def.factory_function
         IN  IF func.raises
             THEN [acc EXCEPT !.called = Append(@, func),
                              !.failed_agents =
                                    Append(@, [name |-> agent_def.name,
                                               error |-> ErrorOf(func)])]
             ELSE create_loop_stops_at_failure(enabled_agents, i + 1,
                    [acc EXCEPT !.called = Append(@, func),
                                !.created_agents = Append(@, AgentOf(func))])

\* The loop of AgentManager.create_enabled_agents over enabled_agents[i..]
\* with the lists created_agents and failed_agents built so far.
RECURSIVE CreateLoop(_, _, _)
CreateLoop(enabled_agents, i, acc) ==
    IF i > Len(enabled_agents)
    THEN acc
    ELSE LET agent_def == enabled_agents[i]
             func == agent_def.factory_function
         IN  IF func.raises
             THEN CreateLoop(enabled_agents, i + 1,
                    [acc EXCEPT !.called = Append(@, func),
                                !.failed_agents =
                                    Append(@, [name |-> agent_def.name,
                                               error |-> ErrorOf(func)])])
             ELSE CreateLoop(enabled_agents, i + 1,
                    [acc EXCEPT !.called = Append(@, func),
                                !.created_agents = Append(@, AgentOf(func))])

\* create_enabled_agents returning the agents it created when factories
\* failed, instead of raising.
create_enabled_returns_partial(R) ==
    LET acc == CreateLoop(get_enabled(R), 1,
                          [created_agents |-> <<>>, failed_agents |-> <<>>, called |-> <<>>])
    IN  [ret |-> ReturnedValue(acc.created_agents),
         called |-> acc.called, created |-> acc.created_agents]

\* AgentManager.create_enabled_agents
create_enabled_agents(R) ==
    LET acc == CreateLoop(get_enabled(R), 1,
                          [created_agents |-> <<>>, failed_agents |-> <<>>, called |-> <<>>])
    IN  IF acc.failed_agents # <<>>
        THEN [ret |-> Raised("RuntimeError", acc.failed_agents),
              called |-> acc.called, created |-> acc.created_agents]
        ELSE [ret |-> ReturnedValue(acc.created_agents),
              called |-> acc.called, created |-> acc.created_agents]

-----------------------------------------------------------------------------
(* server.py *)

\* Server.__init__: the registry afterwards, the agents handed to AgentOS
\* and the factories invoked.  AgentManager.discover() is called without
\* paths, so it cannot raise.
server_init(R, order) ==
    LET found == manager_discover(R, <<>>, FALSE, order)
        made == create_enabled_agents(found.R)
    IN  [R |-> found.R,
         agents |-> IF made.ret.kind = "raise" THEN <<>> ELSE made.ret.value,
         called |-> made.called]

\* Python values of the types that matter to the checks on arguments.
PyNone == [type |-> "NoneType"]

PyStr(s) == [type |-> "str", str |-> s]

PyInt(n) == [type |-> "int", int |-> n]

PyList(items) == [type |-> "list", items |-> items]

\* bool(v)
Truthy(v) ==
    CASE v.type = "NoneType" -> FALSE
      [] v.type = "str" -> v.str # ""
      [] v.type = "int" -> v.int # 0
      [] v.type = "list" -> v.items # <<>>

\* tag in agent_tags, for a list agent_tags of strings.
TagIn(tag, agent_tags) ==
    tag.type = "str" /\ \E i \in DOMAIN agent_tags : agent_tags[i] = tag.str

\* The loop of get_by_tags over all_agents from element i on.
RECURSIVE TagLoop(_, _, _, _)
TagLoop(all_agents, tags, match_all, i) ==
    IF i > Len(all_agents) THEN <<>>
    ELSE LET agent_tags == all_agents[i].metadata.tags
             keep == IF match_all
                     THEN \A k \in DOMAIN tags.items : TagIn(tags.items[k], agent_tags)
                     ELSE \E k \in DOMAIN tags.items : TagIn(tags.items[k], agent_tags)
         IN  (IF keep THEN <<all_agents[i]>> ELSE <<>>)
                \o TagLoop(all_agents, tags, match_all, i + 1)

\* get_by_tags that requires one tag whatever match_all says.
get_by_tags_ignores_match_all(R, tags, match_all) ==
    IF ~Truthy(tags) \/ tags.type # "list" THEN <<>>
    ELSE TagLoop(list_agents(R, NoFilter), tags, FALSE, 1)

\* AgentManager.get_by_tags
get_by_tags(R, tags, match_all) ==
    IF ~Truthy(tags) \/ tags.type # "list" THEN <<>>
    ELSE TagLoop(list_agents(R, NoFilter), tags, match_all, 1)

\* AgentManager.enable / disable: the registry afterwards and the value
\* returned; a name is a str holding a sequence of words.
enable(R, name) ==
    IF name.type # "str" \/ name.str = <<>>
    THEN [R |-> R, ret |-> ReturnedBool(FALSE)]
    ELSE [R |-> enable_agent(R, name.str),
          ret |-> ReturnedBool(name.str \in DictKeys(R.agent_definitions))]

disable(R, name) ==
    IF name.type # "str" \/ name.str = <<>>
    THEN [R |-> R, ret |-> ReturnedBool(FALSE)]
    ELSE [R |-> disable_agent(R, name.str),
          ret |-> ReturnedBool(name.str \in DictKeys(R.agent_definitions))]

-----------------------------------------------------------------------------
(* tools/mcp/manager.py and tools/mcp/registry.py *)

\* MCPManager._retry_config; the delays in seconds.
max_attempts == 3
base_delay == 1
max_delay == 5

\* The keys of MCP_DEFINITIONS.
MCP_DEFINITIONS == {"docs"}

\* A variable that is not set in the environment.
Unset == "<unset>"

\* os.getenv(key, default)
getenv(key, default) == IF environ[key] = Unset THEN default ELSE environ[key]

\* str.lower on the values the environment is tried with.
Lower(s) ==
    CASE s = "True" -> "true"
      [] s = "YES" -> "yes"
      [] s = "Dev" -> "dev"
      [] OTHER -> s

\* MCPManager.is_development_mode
is_development_mode ==
    \/ Lower(getenv("DEBUG", "false")) \in {"true", "1", "yes"}
    \/ Lower(getenv("ENVIRONMENT", "")) \in {"development", "dev", "local"}

\* MCPManager.is_mcp_disabled
is_mcp_disabled == Lower(getenv("DISABLE_MCP", "false")) \in {"true", "1", "yes"}

\* What happened during an operation: MCPTools(...) was called for the
\* connection name, as attempt number attempt (from 0) and with the outcome
\* ok, or time.sleep(delay) was called.
Connect(name, attempt, ok) ==
    [ev |-> "connect", name |-> name, attempt |-> attempt, ok |-> ok, delay |-> 0]

Sleep(name, attempt, delay) ==
    [ev |-> "sleep", name |-> name, attempt |-> attempt, ok |-> FALSE, delay |-> delay]

\* The short time.sleep before a load in development mode (its length, a
\* tenth of a second, is not recorded).
Settle == [ev |-> "settle", name |-> "", attempt |-> 0, ok |-> FALSE, delay |-> 0]

\* An MCPTools instance connected for the definition name.
MCPTools(name) == [tool |-> name]

Min(a, b) == IF a <= b THEN a ELSE b

\* The loop of _create_mcp_with_retry from attempt number attempt on.
\* outcomes tells for each coming call of MCPTools(...) whether it
\* connects; the result says how the call ends (tool: the value returned,
\* <<>> for None), what happened, and how many outcomes were used.
RECURSIVE RetryLoop(_, _, _, _, _)
RetryLoop(config, is_dev, limit, outcomes, attempt) ==
    IF attempt >= limit
    THEN [kind |-> "return", tool |-> <<>>, events |-> <<>>, used |-> 0]
    ELSE LET tried == Connect(config._name, attempt, outcomes[1])
         IN  IF outcomes[1]
             THEN [kind |-> "return", tool |-> <<MCPTools(config._name)>>,
                   events |-> <<tried>>, used |-> 1]
             ELSE IF ~is_dev \/ attempt = limit - 1
             THEN [kind |-> IF ~is_dev THEN "raise" ELSE "return", tool |-> <<>>,
                   events |-> <<tried>>, used |-> 1]
             ELSE LET delay == Min(base_delay * (2 ^ attempt), max_delay)
                      rest == RetryLoop(config, is_dev, limit, Tail(outcomes), attempt + 1)
                  IN  [rest EXCEPT
                        !.events = <<tried, Sleep(config._name, attempt, delay)>> \o @,
                        !.used = @ + 1]

\* A limit of one attempt more in development mode.
one_more_attempt == IF is_development_mode THEN max_attempts + 1 ELSE 1

\* The local max_attempts of _create_mcp_with_retry.
AttemptLimit == IF is_development_mode THEN max_attempts ELSE 1

\* MCPManager._create_mcp_with_retry
_create_mcp_with_retry(config, outcomes) ==
    RetryLoop(config, is_development_mode, AttemptLimit, outcomes, 0)

\* The loop of MCPManager.get(immediate=True) over the configs from number
\* i on, with the tools collected so far.
RECURSIVE ImmediateLoop(_, _, _, _, _)
ImmediateLoop(cache, configs, outcomes, i, tools) ==
    IF i > Len(configs)
    THEN [cache |-> cache, kind |-> "return", tools |-> tools, events |-> <<>>]
    ELSE IF configs[i]._name \in cache
    THEN ImmediateLoop(cache, configs, outcomes, i + 1,
                       Append(tools, MCPTools(configs[i]._name)))
    ELSE LET made == _create_mcp_with_retry(configs[i], outcomes)
         IN  IF made.kind = "raise"
             THEN [cache |-> cache, kind |-> "raise", tools |-> <<>>,
                   events |-> made.events]
             ELSE LET rest == ImmediateLoop(
                                IF made.tool # <<>>
                                THEN cache \cup {configs[i]._name} ELSE cache,
                                configs,
                                SubSeq(outcomes, made.used + 1, Len(outcomes)),
                                i + 1, tools \o made.tool)
                  IN  [rest EXCEPT !.events = made.events \o @]

\* No lazy list has been asked for yet.
NoList ==
    [made |-> FALSE, _configs |-> <<>>, _loaded |-> FALSE, _load_attempted |-> FALSE,
     items |-> <<>>]

\* _LazyMCPList.__init__
_LazyMCPList(mcp_configs) ==
    [made |-> TRUE, _configs |-> mcp_configs, _loaded |-> FALSE,
     _load_attempted |-> FALSE, items |-> <<>>]

\* The loop of _ensure_loaded over the configs from number i on.
RECURSIVE LoadLoop(_, _, _)
LoadLoop(L, outcomes, i) ==
    IF i > Len(L._configs)
    THEN [L |-> L, kind |-> "return", events |-> <<>>]
    ELSE LET made == _create_mcp_with_retry(L._configs[i], outcomes)
         IN  IF made.kind = "raise"
             THEN [L |-> L, kind |-> "raise", events |-> made.events]
             ELSE LET rest == LoadLoop([L EXCEPT !.items = @ \o made.tool],
                                       SubSeq(outcomes, made.used + 1, Len(outcomes)),
                                       i + 1)
                  IN  [rest EXCEPT !.events = made.events \o @]

\* _ensure_loaded with the test of _loaded alone: a load that raised is
\* tried again by the next access.
ensure_loaded_retries(L, outcomes) ==
    IF L._loaded
    THEN [L |-> L, kind |-> "return", events |-> <<>>]
    ELSE LET attempted == [L EXCEPT !._load_attempted = TRUE]
         IN  IF is_mcp_disabled
             THEN [L |-> [attempted EXCEPT !._loaded = TRUE], kind |-> "return",
                   events |-> <<>>]
             ELSE LET settle == IF is_development_mode
                                THEN <<Settle>> ELSE <<>>
                      load == LoadLoop(attempted, outcomes, 1)
                  IN  IF load.kind = "return" \/ is_development_mode
                      THEN [L |-> [load.L EXCEPT !._loaded = TRUE], kind |-> "return",
                            events |-> settle \o load.events]
                      ELSE [L |-> load.L, kind |-> "raise",
                            events |-> settle \o load.events]

\* _LazyMCPList._ensure_loaded
_ensure_loaded(L, outcomes) ==
    IF L._loaded \/ L._load_attempted
    THEN [L |-> L, kind |-> "return", events |-> <<>>]
    ELSE LET attempted == [L EXCEPT !._load_attempted = TRUE]
         IN  IF is_mcp_disabled
             THEN [L |-> [attempted EXCEPT !._loaded = TRUE], kind |-> "return",
                   events |-> <<>>]
             ELSE LET settle == IF is_development_mode
                                THEN <<Settle>> ELSE <<>>
                      load == LoadLoop(attempted, outcomes, 1)
                  IN  IF load.kind = "return" \/ is_development_mode
                      THEN [L |-> [load.L EXCEPT !._loaded = TRUE], kind |-> "return",
                            events |-> settle \o load.events]
                      ELSE [L |-> load.L, kind |-> "raise",
                            events |-> settle \o load.events]

\* MCPManager.get(name, immediate): the cache afterwards, the lazy list
\* returned (<<>>: none), the outcome and what happened.
MCPManager_get(cache, name, immediate, outcomes) ==
    LET cleaned == IF is_development_mode THEN {} ELSE cache
        names == IF name.type = "str" THEN <<name.str>> ELSE name.items
        configs == [i \in DOMAIN names |-> [_name |-> names[i]]]
    IN  IF \E i \in DOMAIN names : names[i] \notin MCP_DEFINITIONS
        THEN [cache |-> cleaned, lazy |-> <<>>, ret |-> Raised("ValueError", <<>>),
              events |-> <<>>]
        ELSE IF immediate
        THEN LET made == ImmediateLoop(cleaned, configs, outcomes, 1, <<>>)
             IN  [cache |-> made.cache, lazy |-> <<>>,
                  ret |-> IF made.kind = "raise" THEN Raised("Exception", <<>>)
                          ELSE ReturnedValue(made.tools),
                  events |-> made.events]
        ELSE [cache |-> cleaned, lazy |-> <<_LazyMCPList(configs)>>,
              ret |-> ReturnedValue(<<>>), events |-> <<>>]

\* The state of MCPManager and of the environment when the process starts.
MCPNew ==
    /\ environ = [DEBUG |-> Unset, ENVIRONMENT |-> Unset, DISABLE_MCP |-> Unset]
    /\ lazy_list = NoList
    /\ _cache = {}

-----------------------------------------------------------------------------
(* models/provider_registry.py and models/factory.py *)

\* PROVIDER_CONFIG: for each provider two of the models that its register
\* function registers, in their order, those of them that have metadata,
\* the default model among them, and the synonyms of the provider.
PROVIDER_CONFIG ==
    [openai |-> [models |-> <<"gpt-4o", "gpt-4.1-mini">>, metadata |-> {"gpt-4o"},
                 default |-> "gpt-4.1-mini", synonyms |-> <<>>],
     google |-> [models |-> <<"gemini-2.0-flash", "gemini-pro">>,
                 metadata |-> {"gemini-2.0-flash", "gemini-pro"},
                 default |-> "gemini-2.0-flash", synonyms |-> <<"gemini">>]]

\* The value None where a model is expected.
NoModel == "None"

\* ProviderRegistry._generate_registries_from_config: the keys of
\* provider_initializers, and provider_synonyms as pairs <<synonym, provider>>.
provider_initializers == DOMAIN PROVIDER_CONFIG

provider_synonyms ==
    UNION {{<<PROVIDER_CONFIG[p].synonyms[i], p>> : i \in DOMAIN PROVIDER_CONFIG[p].synonyms} :
                p \in DOMAIN PROVIDER_CONFIG}

SynonymNames == {pair[1] : pair \in provider_synonyms}

\* provider_synonyms.get(provider, provider)
ActualProvider(provider) ==
    IF provider \in SynonymNames
    THEN (CHOOSE pair \in provider_synonyms : pair[1] = provider)[2]
    ELSE provider

\* The registry of the providers as a record.
PReg ==
    [initialized_providers |-> initialized_providers,
     model_registry |-> model_registry,
     metadata_registry |-> metadata_registry,
     provider_defaults |-> provider_defaults,
     register_calls |-> register_calls]

\* ProviderRegistry.__init__
NewProviderRegistry ==
    [initialized_providers |-> {},
     model_registry |-> {},
     metadata_registry |-> {},
     provider_defaults |-> [p \in provider_initializers \cup SynonymNames |-> NoModel],
     register_calls |-> <<>>]

\* ProviderRegistry.set_default_model
set_default_model(PR, provider, model) ==
    IF provider \in DOMAIN PR.provider_defaults
    THEN [PR EXCEPT !.provider_defaults =
            [p \in DOMAIN @ |-> IF p = provider \/ <<p, provider>> \in provider_synonyms
                                THEN model ELSE @[p]]]
    ELSE PR

\* ProviderRegistry.register_model, as the register functions call it
\* through ModelFactory.register_model: the metadata is that of the
\* provider's table, if any, and the default model of the provider is
\* registered with is_default.
register_model(PR, provider, model) ==
    LET stored == [PR EXCEPT !.model_registry = @ \cup {model},
                             !.metadata_registry =
                                IF model \in PROVIDER_CONFIG[provider].metadata
                                THEN @ \cup {model} ELSE @]
    IN  IF model = PROVIDER_CONFIG[provider].default
        THEN set_default_model(stored, provider, model)
        ELSE stored

\* The loop of a register function over the first n models of the provider.
RECURSIVE RegisterLoop(_, _, _)
RegisterLoop(PR, provider, n) ==
    IF n = 0 THEN PR
    ELSE register_model(RegisterLoop(PR, provider, n - 1), provider,
                        PROVIDER_CONFIG[provider].models[n])

\* register_openai_models / register_google_models.  outcome tells whether
\* the function returns, and after how many registered models it raises
\* otherwise.
register_function(PR, provider, outcome) ==
    [R |-> [RegisterLoop(PR, provider,
                         IF outcome.ok THEN Len(PROVIDER_CONFIG[provider].models)
                         ELSE outcome.done)
                EXCEPT !.register_calls =
                            Append(@, [provider |-> provider, ok |-> outcome.ok])],
     raised |-> ~outcome.ok]

\* _init_provider that records the provider before it calls the register
\* function.
init_marks_before_register(PR, provider_name, outcome) ==
    IF provider_name \notin DOMAIN PROVIDER_CONFIG
    THEN [R |-> PR, raised |-> TRUE]
    ELSE register_function(
            [PR EXCEPT !.initialized_providers = @ \cup {provider_name}],
            provider_name, outcome)

\* ProviderRegistry._init_provider: raised stands for the RuntimeError.
_init_provider(PR, provider_name, outcome) ==
    IF provider_name \notin DOMAIN PROVIDER_CONFIG
    THEN [R |-> PR, raised |-> TRUE]
    ELSE LET done == register_function(PR, provider_name, outcome)
         IN  IF done.raised
             THEN done
             ELSE [R |-> [done.R EXCEPT !.initialized_providers = @ \cup {provider_name}],
                   raised |-> FALSE]

\* ProviderRegistry.ensure_provider_initialized.  outcomes gives the
\* outcome of the register function of each provider.
ensure_provider_initialized(PR, provider, outcomes) ==
    LET actual_provider == ActualProvider(provider)
    IN  IF actual_provider \notin PR.initialized_providers
            /\ actual_provider \in provider_initializers
        THEN _init_provider(PR, actual_provider, outcomes[actual_provider])
        ELSE [R |-> PR, raised |-> FALSE]

\* ProviderRegistry.ensure_all_providers_initialized: the loop over the set
\* of the base providers, taken in the order given, from number i on.
RECURSIVE ensure_all_providers_initialized(_, _, _, _)
ensure_all_providers_initialized(PR, order, outcomes, i) ==
    IF i > Len(order)
    THEN [R |-> PR, raised |-> FALSE]
    ELSE LET done == ensure_provider_initialized(PR, order[i], outcomes)
         IN  IF done.raised
             THEN done
             ELSE ensure_all_providers_initialized(done.R, order, outcomes, i + 1)

\* A member of a models enum, by its value.
PyEnum(value) == [type |-> "enum", value |-> value]

\* ProviderRegistry.find_enum_by_value: the member, or None.
find_enum_by_value(value) ==
    IF value.type = "enum" THEN value.value
    ELSE IF value.type = "str"
            /\ \E p \in DOMAIN PROVIDER_CONFIG :
                    value.str \in SeqToSet(PROVIDER_CONFIG[p].models)
    THEN value.str
    ELSE NoModel

\* ModelFactory.get_model; a model instance is the name of its model.
get_model(PR, model_id, order, outcomes) ==
    LET done == ensure_all_providers_initialized(PR, order, outcomes, 1)
        model_key == find_enum_by_value(model_id)
    IN  IF done.raised
        THEN [R |-> done.R, ret |-> Raised("RuntimeError", <<>>)]
        ELSE IF model_key \notin done.R.model_registry
        THEN [R |-> done.R, ret |-> Raised("ValueError", <<>>)]
        ELSE [R |-> done.R, ret |-> ReturnedValue(<<model_key>>)]

\* ModelFactory.get(provider) for a provider given as a str.
ModelFactory_get(PR, provider, order, outcomes) ==
    IF provider \notin DOMAIN PR.provider_defaults
    THEN [R |-> PR, ret |-> Raised("ValueError", <<>>)]
    ELSE LET done == ensure_provider_initialized(PR, provider, outcomes)
         IN  IF done.raised
             THEN [R |-> done.R, ret |-> Raised("RuntimeError", <<>>)]
             ELSE IF done.R.provider_defaults[provider] = NoModel
             THEN [R |-> done.R, ret |-> Raised("ValueError", <<>>)]
             ELSE get_model(done.R, PyEnum(done.R.provider_defaults[provider]),
                            order, outcomes)

\* ModelFactory.get_metadata; the metadata of a model is its name.
get_metadata(PR, model_id, order, outcomes) ==
    LET done == ensure_all_providers_initialized(PR, order, outcomes, 1)
        model_key == find_enum_by_value(model_id)
    IN  IF done.raised
        THEN [R |-> done.R, ret |-> Raised("RuntimeError", <<>>)]
        ELSE IF model_key \notin done.R.metadata_registry
        THEN [R |-> done.R, ret |-> ReturnedNone]
        ELSE [R |-> done.R, ret |-> ReturnedValue(<<model_key>>)]

\* ModelFactory.list_models
list_models(PR, order, outcomes) ==
    LET done == ensure_all_providers_initialized(PR, order, outcomes, 1)
    IN  IF done.raised
        THEN [R |-> done.R, ret |-> Raised("RuntimeError", <<>>)]
        ELSE [R |-> done.R, ret |-> ReturnedValue(done.R.model_registry)]

\* The state of ModelFactory._provider_registry when the process starts.
ModelsNew ==
    /\ initialized_providers = NewProviderRegistry.initialized_providers
    /\ model_registry = NewProviderRegistry.model_registry
    /\ metadata_registry = NewProviderRegistry.metadata_registry
    /\ provider_defaults = NewProviderRegistry.provider_defaults
    /\ register_calls = NewProviderRegistry.register_calls

-----------------------------------------------------------------------------
(* Actions *)

SetReg(R) ==
    /\ agent_definitions' = R.agent_definitions
    /\ decorated_functions' = R.decorated_functions
    /\ discovery_paths' = R.discovery_paths
    /\ discovery_completed' = R.discovery_completed
    /\ module_modification_times' = R.module_modification_times
    /\ failed_imports' = R.failed_imports
    /\ _initialized' = R._initialized
    /\ promote_log' = R.promote_log
    /\ executed' = R.executed
    /\ invoked' = R.invoked
    /\ UNCHANGED <<environ, lazy_list, _cache>>
    /\ UNCHANGED <<initialized_providers, model_registry, metadata_registry,
                   provider_defaults, register_calls>>

NoName == <<>>

NoCandidate == [name |-> NoName]

\* History only: what a clear_registry called now discards: nothing,
\* entries, or entries among which a Definition whose enabled flag was
\* changed after its marker set it.
Discards ==
    IF \E i \in DOMAIN agent_definitions :
            LET func == agent_definitions[i].factory_function
            IN  /\ func.src \in Files
                /\ agent_definitions[i].metadata.enabled #
                        source_files[func.src][func.line].enabled
    THEN "toggled"
    ELSE IF agent_definitions # <<>> \/ decorated_functions # <<>>
    THEN "entries"
    ELSE "nothing"

\* The record of an operation: its name, its arguments (an agent name, the
\* force flag, a path list, a candidate for promotion, a filter), whether
\* it ran a discovery pass, the value of discovery_completed when it was
\* called, what the clear_registry that this operation is, or that it
\* follows immediately, discarded ("no": neither), and its outcome.
Op(op, name, force, paths, cand, ran, ret) ==
    [op |-> op, name |-> name, force |-> force, paths |-> paths,
     cand |-> cand, filter |-> NoFilter, ran |-> ran, latch |-> discovery_completed,
     wiped |-> IF op = "clear_registry" THEN Discards
               ELSE IF lastOp.op = "clear_registry" THEN lastOp.wiped
               ELSE "no",
     ret |-> ret]

\* The arguments the operations are tried with.
NameArgs == {<<"X">>, <<"Y">>, <<"Q">>, <<>>}

\* The name arguments of enable and disable: the names, and None.
ToggleArgs == {PyStr(name) : name \in NameArgs} \cup {PyNone}

PathListArgs == {<<>>, <<"extra">>, <<"extra/.", "missing", "empty">>, <<"empty">>}

PathArgs == {"extra", "definitions/."}

RemovePathArgs == {"extra/."}

\* A registration passed directly to _register_agent_definition.
Candidate(k, name, priority) ==
    [name |-> name,
     func |-> [src |-> "direct", line |-> k, func_name |-> <<"direct">>,
               raises |-> FALSE, stale |-> FALSE],
     metadata |-> AgentMetadata(name, <<>>, priority, TRUE, {})]

PromoteCandidates ==
    {Candidate(1, <<"X">>, 50), Candidate(2, <<"X">>, 50),
     Candidate(3, <<"X">>, 95), Candidate(4, <<"Y">>, 60)}

Init ==
    /\ source_files \in SourceTrees
    /\ agent_definitions = NewRegistry.agent_definitions
    /\ decorated_functions = NewRegistry.decorated_functions
    /\ discovery_paths = NewRegistry.discovery_paths
    /\ discovery_completed = NewRegistry.discovery_completed
    /\ module_modification_times = NewRegistry.module_modification_times
    /\ failed_imports = NewRegistry.failed_imports
    /\ _initialized = NewRegistry._initialized
    /\ promote_log = NewRegistry.promote_log
    /\ executed = <<>>
    /\ called = <<>>
    /\ invoked = <<>>
    /\ MCPNew
    /\ ModelsNew
    /\ lastOp = [op |-> "init", name |-> NoName, force |-> FALSE, paths |-> <<>>,
                 cand |-> NoCandidate, filter |-> NoFilter, ran |-> FALSE,
                 latch |-> FALSE, wiped |-> "no", ret |-> ReturnedNone]

\* AgentManager.discover(paths, force_refresh)
Discover ==
    \E paths \in PathListArgs, force \in BOOLEAN :
      \E order \in OrdersIf(force \/ ~discovery_completed) :
        \E out \in {manager_discover(Reg, paths, force, order)} :
            /\ SetReg(out.R)
            /\ called' = <<>>
            /\ lastOp' = Op("discover", NoName, force, paths, NoCandidate,
                            /\ \A i \in DOMAIN paths : PathExists(paths[i])
                            /\ (force \/ ~discovery_completed),
                            out.ret)
            /\ UNCHANGED source_files

\* AgentManager.clear_registry()
ClearRegistry ==
    /\ \E R \in {clear_registry(Reg)} : SetReg(R)
    /\ called' = <<>>
    /\ lastOp' = Op("clear_registry", NoName, FALSE, <<>>, NoCandidate, FALSE, ReturnedNone)
    /\ UNCHANGED source_files

\* @register_agent applied to a function of an application module, outside
\* of any discovery pass.
RegisterAgent ==
    \E stmt \in AppDefs :
        \E out \in {decorator(Reg, stmt, "app", 1)} :
            /\ SetReg(out.R)
            /\ called' = <<>>
            /\ lastOp' = Op("register_agent", AgentNameOf(stmt.func_name), FALSE, <<>>,
                            NoCandidate, FALSE,
                            IF out.raised THEN Raised("ValueError", <<>>) ELSE ReturnedNone)
            /\ UNCHANGED source_files

\* AgentManager.add_discovery_path(path)
AddDiscoveryPath ==
    \E path \in PathArgs :
        /\ \E R \in {add_discovery_path(Reg, path)} : SetReg(R)
        /\ called' = <<>>
        /\ lastOp' = Op("add_discovery_path", NoName, FALSE, <<path>>,
                        NoCandidate, FALSE, ReturnedNone)
        /\ UNCHANGED source_files

\* AgentManager.remove_discovery_path(path)
RemoveDiscoveryPath ==
    \E path \in RemovePathArgs :
        /\ \E R \in {remove_discovery_path(Reg, path)} : SetReg(R)
        /\ called' = <<>>
        /\ lastOp' = Op("remove_discovery_path", NoName, FALSE, <<path>>,
                        NoCandidate, FALSE, ReturnedNone)
        /\ UNCHANGED source_files

\* AgentManager.enable(name)
Enable ==
    \E name \in ToggleArgs :
        \E out \in {enable(Reg, name)} :
            /\ SetReg(out.R)
            /\ called' = <<>>
            /\ lastOp' = Op("enable", IF name.type = "str" THEN name.str ELSE NoName,
                            FALSE, <<>>, [name |-> NoName, arg |-> name], FALSE, out.ret)
            /\ UNCHANGED source_files

\* AgentManager.disable(name)
Disable ==
    \E name \in ToggleArgs :
        \E out \in {disable(Reg, name)} :
            /\ SetReg(out.R)
            /\ called' = <<>>
            /\ lastOp' = Op("disable", IF name.type = "str" THEN name.str ELSE NoName,
                            FALSE, <<>>, [name |-> NoName, arg |-> name], FALSE, out.ret)
            /\ UNCHANGED source_files

\* AgentManager.create_agent(name)
CreateAgent ==
    \E name \in NameArgs :
        \E out \in {create_agent(Reg, name)} :
            /\ \E R \in {Reg} : SetReg(R)
            /\ called' = out.called
            /\ lastOp' = Op("create_agent", name, FALSE, <<>>, NoCandidate, FALSE, out.ret)
            /\ UNCHANGED source_files

\* AgentManager.create_enabled_agents()
CreateEnabledAgents ==
    \E out \in {create_enabled_agents(Reg)} :
        /\ \E R \in {Reg} : SetReg(R)
        /\ called' = out.called
        /\ lastOp' = Op("create_enabled_agents", NoName, FALSE, <<>>, NoCandidate, FALSE,
                        out.ret)
        /\ UNCHANGED source_files

\* Server.__init__()
ServerInit ==
    \E order \in OrdersIf(~discovery_completed) :
        \E out \in {server_init(Reg, order)} :
            /\ SetReg(out.R)
            /\ called' = out.called
            /\ lastOp' = Op("server_init", NoName, FALSE, <<>>, NoCandidate,
                            ~discovery_completed, ReturnedValue(out.agents))
            /\ UNCHANGED source_files

\* A direct call of AgentRegistry._register_agent_definition.
Promote ==
    \E cand \in PromoteCandidates :
        /\ Cardinality({i \in DOMAIN promote_log :
                            promote_log[i].factory_function.src = "direct"}) < MaxPromotes
        /\ \E R \in {_register_agent_definition(Reg, cand.name, cand.func, cand.metadata,
                                                  "direct", "unknown")} : SetReg(R)
        /\ called' = <<>>
        /\ lastOp' = Op("promote", cand.name, FALSE, <<>>, cand, FALSE, ReturnedNone)
        /\ UNCHANGED source_files

\* The filters list_agents is tried with: none, and priority_min = 50.
FilterArgs == {NoFilter, AgentFilter(NoneValue, NoneValue, NoneValue, Some(50), NoneValue, {})}

\* AgentRegistry.list_agents(filter_obj), as AgentManager.get_all calls it.
ListAgents ==
    \E filter \in FilterArgs :
        \E out \in {list_agents(Reg, filter)} :
            /\ \E R \in {Reg} : SetReg(R)
            /\ called' = <<>>
            /\ lastOp' = [Op("list_agents", NoName, FALSE, <<>>, NoCandidate, FALSE,
                             ReturnedValue(out)) EXCEPT !.filter = filter]
            /\ UNCHANGED source_files

\* The operations of the public interface.
Next ==
    \/ Discover
    \/ ClearRegistry
    \/ RegisterAgent
    \/ AddDiscoveryPath
    \/ RemoveDiscoveryPath
    \/ Enable
    \/ Disable
    \/ CreateAgent
    \/ CreateEnabledAgents
    \/ ListAgents
    \/ ServerInit

Spec == Init /\ [][Next]_vars

\* AgentRegistry.discover_agents(force_refresh)
DiscoverAgents ==
    \E force \in BOOLEAN :
      \E order \in OrdersIf(force \/ ~discovery_completed) :
        /\ \E R \in {discover_agents(Reg, force, order)} : SetReg(R)
        /\ called' = <<>>
        /\ lastOp' = Op("discover_agents", NoName, force, <<>>, NoCandidate,
                        force \/ ~discovery_completed, ReturnedNone)
        /\ UNCHANGED source_files

\* The store with its private promotion step called directly.
NextPromote ==
    \/ Promote
    \/ DiscoverAgents
    \/ ClearRegistry
    \/ RegisterAgent

SpecPromote == Init /\ [][NextPromote]_vars

\* Registrations that AgentDefinition.__post_init__ rejects: the name differs
\* from metadata.name, or is empty.
MalformedCandidates ==
    {[name |-> <<"X">>,
      func |-> [src |-> "direct", line |-> 5, func_name |-> <<"malformed">>,
                raises |-> FALSE, stale |-> FALSE],
      metadata |-> AgentMetadata(<<"Y">>, <<>>, 99, TRUE, {})],
     [name |-> <<>>,
      func |-> [src |-> "direct", line |-> 6, func_name |-> <<"malformed">>,
                raises |-> FALSE, stale |-> FALSE],
      metadata |-> AgentMetadata(<<"Y">>, <<>>, 60, TRUE, {})]}

\* A direct call of AgentRegistry._register_agent_definition with a
\* registration that is not well formed, at most once between two clears.
PromoteMalformed ==
    \E cand \in MalformedCandidates :
        /\ \A i \in DOMAIN promote_log :
                promote_log[i].factory_function.func_name # <<"malformed">>
        /\ \E R \in {_register_agent_definition(Reg, cand.name, cand.func, cand.metadata,
                                                  "direct", "unknown")} : SetReg(R)
        /\ called' = <<>>
        /\ lastOp' = Op("promote_malformed", cand.name, FALSE, <<>>, cand, FALSE,
                        ReturnedNone)
        /\ UNCHANGED source_files

\* The store with its promotion step called directly, also with
\* registrations that are not well formed.
NextStore ==
    \/ Promote
    \/ PromoteMalformed
    \/ DiscoverAgents
    \/ ClearRegistry

SpecStore == Init /\ [][NextStore]_vars

-----------------------------------------------------------------------------
(* The discovery paths under add_discovery_path and remove_discovery_path *)

\* The paths add_discovery_path and remove_discovery_path are tried with:
\* the default paths and one more directory, in two spellings.
PathChoices == {"definitions", "definitions/.", "agents", "extra", "extra/."}

\* AgentManager.add_discovery_path(path)
AddAnyPath ==
    \E path \in PathChoices :
        /\ \E R \in {add_discovery_path(Reg, path)} : SetReg(R)
        /\ called' = <<>>
        /\ lastOp' = Op("add_discovery_path", NoName, FALSE, <<path>>,
                        NoCandidate, FALSE, ReturnedNone)
        /\ UNCHANGED source_files

\* AgentManager.remove_discovery_path(path)
RemoveAnyPath ==
    \E path \in PathChoices :
        /\ \E R \in {remove_discovery_path(Reg, path)} : SetReg(R)
        /\ called' = <<>>
        /\ lastOp' = Op("remove_discovery_path", NoName, FALSE, <<path>>,
                        NoCandidate, FALSE, ReturnedNone)
        /\ UNCHANGED source_files

NextPaths ==
    \/ AddAnyPath
    \/ RemoveAnyPath
    \/ DiscoverAgents

SpecPaths == Init /\ [][NextPaths]_vars

-----------------------------------------------------------------------------
(* The construction of the store *)

InitSingleton ==
    /\ source_files \in SourceTrees
    /\ agent_definitions = Unconstructed.agent_definitions
    /\ decorated_functions = Unconstructed.decorated_functions
    /\ discovery_paths = Unconstructed.discovery_paths
    /\ discovery_completed = Unconstructed.discovery_completed
    /\ module_modification_times = Unconstructed.module_modification_times
    /\ failed_imports = Unconstructed.failed_imports
    /\ _initialized = Unconstructed._initialized
    /\ promote_log = Unconstructed.promote_log
    /\ executed = <<>>
    /\ called = <<>>
    /\ invoked = <<>>
    /\ MCPNew
    /\ ModelsNew
    /\ lastOp = [op |-> "init", name |-> NoName, force |-> FALSE, paths |-> <<>>,
                 cand |-> NoCandidate, filter |-> NoFilter, ran |-> FALSE,
                 latch |-> FALSE, wiped |-> "no", ret |-> ReturnedNone]

\* AgentRegistry()
Construct ==
    /\ \E R \in {AgentRegistry__init__(Reg)} : SetReg(R)
    /\ called' = <<>>
    /\ lastOp' = Op("AgentRegistry", NoName, FALSE, <<>>, NoCandidate, FALSE, ReturnedNone)
    /\ UNCHANGED source_files

\* The operations on the store that exist once it is constructed.
NextSingleton ==
    \/ Construct
    \/ _initialized /\ DiscoverAgents
    \/ _initialized /\ AddDiscoveryPath
    \/ _initialized /\ RemoveDiscoveryPath
    \/ _initialized /\ Disable

SpecSingleton == InitSingleton /\ [][NextSingleton]_vars

-----------------------------------------------------------------------------
(* The queries on a discovered store *)

\* Marked functions with further keyword arguments.
DefCreateXTeam == WithAttributes(DefCreateX, {<<"team", "a">>, <<"tier", "2">>})
DefCreateYTeam == WithAttributes(DefCreateY, {<<"team", "b">>, <<"tier", "1">>})
DefCreateHiddenTeam ==
    WithAttributes(Marker(<<"create", "hidden">>, 50, TRUE, <<"docs">>, FALSE),
                   {<<"team", "a">>, <<"tier", "2">>})

\* The source trees the queries are tried on.
QueryTrees ==
    {[a |-> <<DefCreateXTeam, DefCreateYTeam>>, b |-> cb, init |-> <<DefHidden>>,
      notes |-> <<DefHidden>>, c |-> <<DefCreateHiddenTeam, CallStmt(1)>>,
      base |-> <<>>,
      d |-> <<DefY>>] :
        cb \in {<<DefCreateZ>>, <<DefX>>}}

\* The filters list_agents is tried with in the queries.
QueryFilters ==
    {AgentFilter(tags, enabled, pattern, priority_min, priority_max, custom_criteria) :
        tags \in {NoneValue, Some(<<>>), Some(<<"core">>), Some(<<"docs", "ops">>)},
        enabled \in {NoneValue, Some(TRUE)},
        pattern \in {NoneValue},
        priority_min \in {NoneValue, Some(50)},
        priority_max \in {NoneValue, Some(50)},
        custom_criteria \in {{}, {<<"team", "a">>}, {<<"team", "a">>, <<"tier", "2">>},
                             {<<"owner", "a">>}}}
    \cup {AgentFilter(NoneValue, Some(FALSE), Some("DECORATOR"), NoneValue, NoneValue, {})}

InitQuery ==
    /\ source_files \in QueryTrees
    /\ agent_definitions = NewRegistry.agent_definitions
    /\ decorated_functions = NewRegistry.decorated_functions
    /\ discovery_paths = NewRegistry.discovery_paths
    /\ discovery_completed = NewRegistry.discovery_completed
    /\ module_modification_times = NewRegistry.module_modification_times
    /\ failed_imports = NewRegistry.failed_imports
    /\ _initialized = NewRegistry._initialized
    /\ promote_log = NewRegistry.promote_log
    /\ executed = <<>>
    /\ called = <<>>
    /\ invoked = <<>>
    /\ MCPNew
    /\ ModelsNew
    /\ lastOp = [op |-> "init", name |-> NoName, force |-> FALSE, paths |-> <<>>,
                 cand |-> NoCandidate, filter |-> NoFilter, ran |-> FALSE,
                 latch |-> FALSE, wiped |-> "no", ret |-> ReturnedNone]

\* AgentRegistry.list_agents(filter_obj) with the filters of the queries.
ListAgentsBy ==
    \E filter \in QueryFilters :
        \E out \in {list_agents(Reg, filter)} :
            /\ \E R \in {Reg} : SetReg(R)
            /\ called' = <<>>
            /\ lastOp' = [Op("list_agents", NoName, FALSE, <<>>, NoCandidate, FALSE,
                             ReturnedValue(out)) EXCEPT !.filter = filter]
            /\ UNCHANGED source_files

\* isinstance(v, list) and all(isinstance(x, str) for x in v)
ListOfStr(v) ==
    v.type = "list" /\ \A k \in DOMAIN v.items : v.items[k].type = "str"

\* __post_init__ without the test of the sign of the priority.
post_init_accepts_negative(name, priority, tags, dependencies) ==
    IF ~Truthy(name) \/ name.type # "str"
    THEN "Agent name must be a non-empty string"
    ELSE IF priority.type # "int"
    THEN "Priority must be a positive integer"
    ELSE IF tags.type # "list"
    THEN "Tags must be a list of strings"
    ELSE IF ~ListOfStr(tags)
    THEN "All tags must be strings"
    ELSE IF dependencies.type # "list"
    THEN "Dependencies must be a list of strings"
    ELSE IF ~ListOfStr(dependencies)
    THEN "All dependencies must be strings"
    ELSE ""

\* AgentMetadata.__post_init__ on Python values: the message of the
\* ValueError it raises, "" when it raises none.
AgentMetadata__post_init__(name, priority, tags, dependencies) ==
    IF ~Truthy(name) \/ name.type # "str"
    THEN "Agent name must be a non-empty string"
    ELSE IF priority.type # "int" \/ priority.int < 0
    THEN "Priority must be a positive integer"
    ELSE IF tags.type # "list"
    THEN "Tags must be a list of strings"
    ELSE IF ~ListOfStr(tags)
    THEN "All tags must be strings"
    ELSE IF dependencies.type # "list"
    THEN "Dependencies must be a list of strings"
    ELSE IF ~ListOfStr(dependencies)
    THEN "All dependencies must be strings"
    ELSE ""

\* AgentMetadata(name=..., pattern=DECORATOR, tags=..., priority=...,
\* dependencies=...): the exception, or the object with its fields.
NewAgentMetadata(name, priority, tags, dependencies) ==
    LET error == AgentMetadata__post_init__(name, priority, tags, dependencies)
    IN  IF error # ""
        THEN Raised("ValueError", <<error>>)
        ELSE ReturnedValue([name |-> name, pattern |-> "DECORATOR", tags |-> tags,
                            priority |-> priority, enabled |-> TRUE,
                            dependencies |-> dependencies, custom_attributes |-> {}])

\* The arguments AgentMetadata is constructed with.
NameValues == {PyStr(""), PyStr("Docs Agent"), PyNone}

PriorityValues == {PyInt(0 - 1), PyInt(0), PyInt(50), PyStr("50")}

TagsValues ==
    {PyList(<<>>), PyList(<<PyStr("core")>>), PyList(<<PyStr("core"), PyInt(1)>>),
     PyStr("core")}

DependencyValues == {PyList(<<>>), PyList(<<PyStr("db")>>), PyList(<<PyNone>>), PyNone}

\* AgentMetadata(...) called by a client.
ConstructMetadata ==
    \E name \in NameValues, priority \in PriorityValues, tags \in TagsValues,
       dependencies \in DependencyValues :
        /\ \E R \in {Reg} : SetReg(R)
        /\ called' = <<>>
        /\ lastOp' = Op("AgentMetadata", NoName, FALSE, <<>>,
                        [name |-> NoName,
                         args |-> [name |-> name, priority |-> priority, tags |-> tags,
                                   dependencies |-> dependencies]],
                        FALSE, NewAgentMetadata(name, priority, tags, dependencies))
        /\ UNCHANGED source_files

\* The tags arguments get_by_tags is tried with.
TagArgs ==
    {PyList(<<>>), PyList(<<PyStr("core")>>), PyList(<<PyStr("core"), PyStr("docs")>>),
     PyList(<<PyStr("docs"), PyStr("ops")>>), PyStr("core"), PyNone}

\* AgentManager.get_by_tags(tags, match_all)
GetByTags ==
    \E tags \in TagArgs, match_all \in BOOLEAN :
        \E out \in {get_by_tags(Reg, tags, match_all)} :
            /\ \E R \in {Reg} : SetReg(R)
            /\ called' = <<>>
            /\ lastOp' = Op("get_by_tags", NoName, FALSE, <<>>,
                            [name |-> NoName, tags |-> tags, match_all |-> match_all],
                            FALSE, ReturnedValue(out))
            /\ UNCHANGED source_files

NextQuery ==
    \/ DiscoverAgents
    \/ Disable
    \/ ListAgentsBy
    \/ GetByTags
    \/ ConstructMetadata

SpecQuery == InitQuery /\ [][NextQuery]_vars

-----------------------------------------------------------------------------
(* manager.py: the read operations of the facade *)

\* AgentManager._get_registry: AgentRegistry() hands out the one instance.
_get_registry(R) == AgentRegistry__init__(R)

\* AgentManager.get_all
get_all(R) == list_agents(_get_registry(R), NoFilter)

\* get that also looks a name up among the pending registrations.
get_searches_pending(R, name) ==
    IF name.type # "str" \/ name.str = <<>> THEN ReturnedNone
    ELSE IF name.str \in DictKeys(_get_registry(R).agent_definitions)
    THEN ReturnedValue(<<DictGet(_get_registry(R).agent_definitions, name.str)>>)
    ELSE IF name.str \in DictKeys(_get_registry(R).decorated_functions)
    THEN ReturnedValue(<<DictGet(_get_registry(R).decorated_functions, name.str)>>)
    ELSE ReturnedNone

\* AgentManager.get with AgentRegistry.get_agent_definition: the Definition
\* (a value of one element), or None.
get(R, name) ==
    IF name.type # "str" \/ name.str = <<>> THEN ReturnedNone
    ELSE IF name.str \in DictKeys(_get_registry(R).agent_definitions)
    THEN ReturnedValue(<<DictGet(_get_registry(R).agent_definitions, name.str)>>)
    ELSE ReturnedNone

\* The members of the enum DiscoveryPattern.
DiscoveryPattern == {"DECORATOR"}

PyPattern(member) == [type |-> "DiscoveryPattern", member |-> member]

\* str.upper on the strings the patterns are asked by.
Upper(s) ==
    CASE s = "decorator" -> "DECORATOR"
      [] s = "Decorator" -> "DECORATOR"
      [] s = "convention" -> "CONVENTION"
      [] OTHER -> s

\* AgentManager.get_by_pattern: a str names a member (KeyError: []), a
\* member is taken as it is, and any other value fails on .name after the
\* listing (AttributeError: []).
get_by_pattern(R, pattern) ==
    IF pattern.type = "str"
    THEN IF Upper(pattern.str) \in DiscoveryPattern
         THEN list_agents(_get_registry(R),
                          AgentFilter(NoneValue, NoneValue, Some(Upper(pattern.str)),
                                      NoneValue, NoneValue, {}))
         ELSE <<>>
    ELSE IF pattern.type = "DiscoveryPattern"
    THEN list_agents(_get_registry(R),
                     AgentFilter(NoneValue, NoneValue, Some(pattern.member),
                                 NoneValue, NoneValue, {}))
    ELSE <<>>

\* AgentManager.get_all()
GetAll ==
    \E out \in {get_all(Reg)} :
        /\ \E R \in {_get_registry(Reg)} : SetReg(R)
        /\ called' = <<>>
        /\ lastOp' = Op("get_all", NoName, FALSE, <<>>, NoCandidate, FALSE,
                        ReturnedValue(out))
        /\ UNCHANGED source_files

\* AgentManager.get(name)
Get ==
    \E name \in ToggleArgs :
        \E out \in {get(Reg, name)} :
            /\ \E R \in {IF name.type # "str" \/ name.str = <<>>
                         THEN Reg ELSE _get_registry(Reg)} : SetReg(R)
            /\ called' = <<>>
            /\ lastOp' = Op("get", IF name.type = "str" THEN name.str ELSE NoName,
                            FALSE, <<>>, [name |-> NoName, arg |-> name], FALSE, out)
            /\ UNCHANGED source_files

\* AgentManager.get_enabled()
GetEnabled ==
    \E out \in {get_enabled(Reg)} :
        /\ \E R \in {_get_registry(Reg)} : SetReg(R)
        /\ called' = <<>>
        /\ lastOp' = Op("get_enabled", NoName, FALSE, <<>>, NoCandidate, FALSE,
                        ReturnedValue(out))
        /\ UNCHANGED source_files

\* The pattern arguments get_by_pattern is tried with.
PatternArgs ==
    {PyStr("decorator"), PyStr("DECORATOR"), PyStr("convention"),
     PyPattern("DECORATOR"), PyNone}

\* AgentManager.get_by_pattern(pattern)
GetByPattern ==
    \E pattern \in PatternArgs :
        \E out \in {get_by_pattern(Reg, pattern)} :
            /\ \E R \in {IF pattern.type = "str" /\ Upper(pattern.str) \notin DiscoveryPattern
                         THEN Reg ELSE _get_registry(Reg)} : SetReg(R)
            /\ called' = <<>>
            /\ lastOp' = Op("get_by_pattern", NoName, FALSE, <<>>,
                            [name |-> NoName, pattern |-> pattern], FALSE,
                            ReturnedValue(out))
            /\ UNCHANGED source_files

\* The read operations between registrations, discoveries and clears.
NextRead ==
    \/ DiscoverAgents
    \/ ClearRegistry
    \/ RegisterAgent
    \/ Disable
    \/ GetAll
    \/ Get
    \/ GetEnabled
    \/ GetByTags
    \/ GetByPattern

SpecRead == Init /\ [][NextRead]_vars

-----------------------------------------------------------------------------
(* The MCP tools *)

\* Number of items a lazy list may hold when the caller adds to it.
MaxItems == 3

\* The environments the operations are tried in.
EnvChoices ==
    {[DEBUG |-> Unset, ENVIRONMENT |-> Unset, DISABLE_MCP |-> Unset],
     [DEBUG |-> "True", ENVIRONMENT |-> Unset, DISABLE_MCP |-> Unset],
     [DEBUG |-> "0", ENVIRONMENT |-> "Dev", DISABLE_MCP |-> "no"],
     [DEBUG |-> Unset, ENVIRONMENT |-> "production", DISABLE_MCP |-> "YES"],
     [DEBUG |-> "true", ENVIRONMENT |-> Unset, DISABLE_MCP |-> "1"]}

\* No operation of the model factory takes place.
ModelsIdle ==
    UNCHANGED <<initialized_providers, model_registry, metadata_registry,
                provider_defaults, register_calls>>

\* No operation of the agent registry takes place.
AgentsIdle ==
    UNCHANGED <<source_files, agent_definitions, decorated_functions, discovery_paths,
                discovery_completed, module_modification_times, failed_imports,
                _initialized, promote_log, executed, called, invoked>>

InitMCP ==
    /\ source_files = CHOOSE tree \in SourceTrees : TRUE
    /\ agent_definitions = NewRegistry.agent_definitions
    /\ decorated_functions = NewRegistry.decorated_functions
    /\ discovery_paths = NewRegistry.discovery_paths
    /\ discovery_completed = NewRegistry.discovery_completed
    /\ module_modification_times = NewRegistry.module_modification_times
    /\ failed_imports = NewRegistry.failed_imports
    /\ _initialized = NewRegistry._initialized
    /\ promote_log = NewRegistry.promote_log
    /\ executed = <<>>
    /\ called = <<>>
    /\ invoked = <<>>
    /\ environ \in EnvChoices
    /\ lazy_list = NoList
    /\ _cache = {}
    /\ ModelsNew
    /\ lastOp = [op |-> "init", args |-> <<>>, ret |-> ReturnedNone, events |-> <<>>,
                 dev |-> is_development_mode, disabled |-> is_mcp_disabled]

\* The record of an operation on the MCP tools: its name and arguments, its
\* outcome, the connections and waits it made, and the mode it ran in.
McpOp(op, args, ret, events) ==
    [op |-> op, args |-> args, ret |-> ret, events |-> events,
     dev |-> is_development_mode, disabled |-> is_mcp_disabled]

\* The outcomes of the next n calls of MCPTools(...): each connects or raises.
Outcomes(n) == [1..n -> BOOLEAN]

\* os.environ is changed between two operations.
Setenv ==
    \E env \in EnvChoices \ {environ} :
        /\ environ' = env
        /\ lastOp' = [op |-> "setenv", args |-> <<>>, ret |-> ReturnedNone,
                      events |-> <<>>, dev |-> FALSE, disabled |-> FALSE]
        /\ UNCHANGED <<lazy_list, _cache>>
        /\ AgentsIdle
        /\ ModelsIdle

\* The name arguments MCPManager.get is tried with.
McpNameArgs ==
    {PyStr("docs"), PyList(<<"docs", "docs">>), PyList(<<"docs", "other">>), PyList(<<>>)}

\* MCPManager.get(name, immediate)
MCPGet ==
    \E name \in McpNameArgs, immediate \in BOOLEAN :
        \E outcomes \in Outcomes(IF ~immediate THEN 0
                                  ELSE IF name.type = "str" THEN AttemptLimit
                                  ELSE IF \E i \in DOMAIN name.items :
                                            name.items[i] \notin MCP_DEFINITIONS
                                  THEN 0
                                  ELSE AttemptLimit * Len(name.items)) :
            \E out \in {MCPManager_get(_cache, name, immediate, outcomes)} :
                /\ _cache' = out.cache
                /\ lazy_list' = IF out.lazy = <<>> THEN lazy_list ELSE out.lazy[1]
                /\ lastOp' = McpOp("get", [name |-> name, immediate |-> immediate],
                                   out.ret, out.events)
                /\ UNCHANGED environ
                /\ AgentsIdle
                /\ ModelsIdle

\* MCPManager._create_mcp_with_retry(config) for the definition docs.
CreateMcpWithRetry ==
    \E outcomes \in Outcomes(AttemptLimit) :
        \E out \in {_create_mcp_with_retry([_name |-> "docs"], outcomes)} :
            /\ lastOp' = McpOp("_create_mcp_with_retry", outcomes,
                               IF out.kind = "raise" THEN Raised("Exception", <<>>)
                               ELSE IF out.tool = <<>> THEN ReturnedNone
                               ELSE ReturnedValue(out.tool),
                               out.events)
            /\ UNCHANGED <<environ, lazy_list, _cache>>
            /\ AgentsIdle
            /\ ModelsIdle

\* An item that the caller puts into the list.
Own == [tool |-> "own"]

\* list.insert(index, item) for an index from 0 on.
ListInsert(items, index, item) ==
    SubSeq(items, 1, Min(index, Len(items))) \o <<item>>
        \o SubSeq(items, Min(index, Len(items)) + 1, Len(items))

\* A method of _LazyMCPList: _ensure_loaded, then the method of list on
\* the items, unless the loading raised.
LazyMethod(L, op, arg, outcomes) ==
    LET loaded == _ensure_loaded(L, outcomes)
        items == loaded.L.items
    IN  IF loaded.kind = "raise"
        THEN [L |-> loaded.L, ret |-> Raised("Exception", <<>>), events |-> loaded.events]
        ELSE [L |-> CASE op = "append" -> [loaded.L EXCEPT !.items = Append(@, arg)]
                      [] op = "extend" -> [loaded.L EXCEPT !.items = @ \o arg]
                      [] op = "insert" ->
                            [loaded.L EXCEPT !.items = ListInsert(@, arg.index, arg.item)]
                      [] OTHER -> _ensure_loaded(loaded.L, <<>>).L,
              ret |-> CASE op = "__iter__" -> ReturnedValue(items)
                        [] op = "__len__" -> ReturnedCount(Len(items))
                        [] op = "__getitem__" ->
                              IF arg < Len(items)
                              THEN ReturnedValue(<<items[arg + 1]>>)
                              ELSE Raised("IndexError", <<>>)
                        [] op = "__bool__" -> ReturnedBool(Len(items) > 0)
                        [] OTHER -> ReturnedNone,
              events |-> loaded.events]

\* The outcomes of the connections that a first access of the list makes.
LoadOutcomes ==
    Outcomes(IF lazy_list._loaded THEN 0 ELSE AttemptLimit * Len(lazy_list._configs))

\* A method op of the lazy list called with the argument arg.
Access(op, arg) ==
    /\ \E outcomes \in LoadOutcomes :
        \E out \in {LazyMethod(lazy_list, op, arg, outcomes)} :
            /\ lazy_list' = out.L
            /\ lastOp' = McpOp(op, arg, out.ret, out.events)
    /\ UNCHANGED <<environ, _cache>>
    /\ AgentsIdle
    /\ ModelsIdle

\* for tool in tools
LazyIter == lazy_list.made /\ Access("__iter__", <<>>)

\* len(tools)
LazyLen == lazy_list.made /\ Access("__len__", <<>>)

\* tools[index]
LazyGetItem == lazy_list.made /\ \E index \in {0, 1} : Access("__getitem__", index)

\* bool(tools)
LazyBool == lazy_list.made /\ Access("__bool__", <<>>)

\* tools.append(item)
LazyAppend ==
    lazy_list.made /\ Len(lazy_list.items) < MaxItems /\ Access("append", Own)

\* tools.extend(items)
LazyExtend ==
    lazy_list.made /\ Len(lazy_list.items) < MaxItems /\ Access("extend", <<Own, Own>>)

\* tools.insert(index, item)
LazyInsert ==
    /\ lazy_list.made
    /\ Len(lazy_list.items) < MaxItems
    /\ Access("insert", [index |-> 0, item |-> Own])

NextMCP ==
    \/ Setenv
    \/ MCPGet
    \/ CreateMcpWithRetry
    \/ LazyIter
    \/ LazyLen
    \/ LazyGetItem
    \/ LazyBool
    \/ LazyAppend
    \/ LazyExtend
    \/ LazyInsert

SpecMCP == InitMCP /\ [][NextMCP]_vars

-----------------------------------------------------------------------------
(* The model factory *)

\* The largest number of calls of register functions that raise, in a run.
MaxFailures == 2

MCPIdle == UNCHANGED <<environ, lazy_list, _cache>>

InitModels ==
    /\ source_files = CHOOSE tree \in SourceTrees : TRUE
    /\ agent_definitions = NewRegistry.agent_definitions
    /\ decorated_functions = NewRegistry.decorated_functions
    /\ discovery_paths = NewRegistry.discovery_paths
    /\ discovery_completed = NewRegistry.discovery_completed
    /\ module_modification_times = NewRegistry.module_modification_times
    /\ failed_imports = NewRegistry.failed_imports
    /\ _initialized = NewRegistry._initialized
    /\ promote_log = NewRegistry.promote_log
    /\ executed = <<>>
    /\ called = <<>>
    /\ invoked = <<>>
    /\ MCPNew
    /\ ModelsNew
    /\ lastOp = [op |-> "init", args |-> <<>>, ret |-> ReturnedNone]

\* The calls of register functions that raised, among calls.
Failures(calls) == {i \in DOMAIN calls : ~calls[i].ok}

\* What a call of a register function can do: return after it registered
\* every model, or raise after it registered some of them.
RegisterOutcomes(provider) ==
    {[ok |-> TRUE, done |-> Len(PROVIDER_CONFIG[provider].models)]}
        \cup {[ok |-> FALSE, done |-> d] : d \in 0..(Len(PROVIDER_CONFIG[provider].models) - 1)}

\* The outcome of the register function of each provider during one
\* operation; no call raises once MaxFailures calls have raised.
OutcomeChoices ==
    {outcomes \in [provider_initializers -> UNION {RegisterOutcomes(p) : p \in provider_initializers}] :
        /\ \A p \in provider_initializers : outcomes[p] \in RegisterOutcomes(p)
        /\ Cardinality(Failures(register_calls)) >= MaxFailures
                => \A p \in provider_initializers : outcomes[p].ok}

\* The orders in which set(provider_initializers.keys()) can be iterated.
ProviderOrders == Orderings(provider_initializers)

\* The state after an operation of the factory.
SetModels(PR, op, args, ret) ==
    /\ initialized_providers' = PR.initialized_providers
    /\ model_registry' = PR.model_registry
    /\ metadata_registry' = PR.metadata_registry
    /\ provider_defaults' = PR.provider_defaults
    /\ register_calls' = PR.register_calls
    /\ lastOp' = [op |-> op, args |-> args, ret |-> ret]
    /\ AgentsIdle
    /\ MCPIdle

\* The providers ModelFactory.get is tried with.
ProviderArgs == {"openai", "google", "gemini", "other"}

\* The model ids the factory is asked for.
ModelIdArgs ==
    {PyEnum("gpt-4.1-mini"), PyEnum("gemini-pro"), PyStr("gpt-4o"),
     PyStr("gemini-2.0-flash"), PyStr("other")}

\* ModelFactory.get(provider)
FactoryGet ==
    \E provider \in ProviderArgs, order \in ProviderOrders, outcomes \in OutcomeChoices :
        \E out \in {ModelFactory_get(PReg, provider, order, outcomes)} :
            SetModels(out.R, "get", provider, out.ret)

\* ModelFactory.get_model(model_id)
FactoryGetModel ==
    \E model_id \in ModelIdArgs, order \in ProviderOrders, outcomes \in OutcomeChoices :
        \E out \in {get_model(PReg, model_id, order, outcomes)} :
            SetModels(out.R, "get_model", model_id, out.ret)

\* ModelFactory.get_metadata(model_id)
FactoryGetMetadata ==
    \E model_id \in ModelIdArgs, order \in ProviderOrders, outcomes \in OutcomeChoices :
        \E out \in {get_metadata(PReg, model_id, order, outcomes)} :
            SetModels(out.R, "get_metadata", model_id, out.ret)

\* ModelFactory.list_models()
FactoryListModels ==
    \E order \in ProviderOrders, outcomes \in OutcomeChoices :
        \E out \in {list_models(PReg, order, outcomes)} :
            SetModels(out.R, "list_models", <<>>, out.ret)

NextModels ==
    \/ FactoryGet
    \/ FactoryGetModel
    \/ FactoryGetMetadata
    \/ FactoryListModels

SpecModels == InitModels /\ [][NextModels]_vars

-----------------------------------------------------------------------------
(* The conflict rule of promotion *)

\* C1: _register_agent_definition on a name without a Definition installs
\* the new one; on a name with a Definition it replaces the stored one iff
\* the new priority is strictly greater, and otherwise leaves the stored
\* Definition as it was; it returns normally in every case.
C1_PromoteConflictRule ==
    [][\A cand \in PromoteCandidates :
        (lastOp'.op = "promote" /\ lastOp'.cand = cand) =>
            LET name == cand.name
                had == name \in DictKeys(agent_definitions)
            IN  /\ lastOp'.ret.kind = "return"
                /\ name \in DictKeys(agent_definitions')
                /\ IF \/ ~had
                      \/ cand.metadata.priority >
                            DictGet(agent_definitions, name).metadata.priority
                   THEN DictGet(agent_definitions', name) =
                            AgentDefinition(name, cand.func, cand.metadata,
                                            "direct", "unknown")
                   ELSE DictGet(agent_definitions', name) =
                            DictGet(agent_definitions, name)
                /\ \A other \in DictKeys(agent_definitions) \ {name} :
                        /\ other \in DictKeys(agent_definitions')
                        /\ DictGet(agent_definitions', other) =
                                DictGet(agent_definitions, other)]_vars

\* A promotion of equal priority has just been rejected: the stored
\* Definition of the name is another candidate's.
C1_Witness ==
    /\ lastOp.op = "promote"
    /\ lastOp.name \in DictKeys(agent_definitions)
    /\ DictGet(agent_definitions, lastOp.name).metadata.priority =
            lastOp.cand.metadata.priority
    /\ DictGet(agent_definitions, lastOp.name).factory_function # lastOp.cand.func

\* The registrations passed to _register_agent_definition for the name
\* since the last clear, in call order.
HistoryOf(name) == SelectSeq(promote_log, LAMBDA e : e.name = name)

\* The earliest registration of the highest priority in a non-empty history.
BestOf(h) ==
    h[CHOOSE i \in DOMAIN h :
        /\ \A j \in DOMAIN h : h[j].priority <= h[i].priority
        /\ \A j \in 1..(i - 1) : h[j].priority < h[i].priority]

PromotedNames == {promote_log[i].name : i \in DOMAIN promote_log}

\* The store holds one Definition for every promoted name and none for any
\* other, and it is the earliest promoted registration of the highest
\* priority.
OneBestDefinition ==
    /\ DictKeys(agent_definitions) = PromotedNames
    /\ \A name \in PromotedNames :
        /\ Cardinality({i \in DOMAIN agent_definitions :
                            agent_definitions[i].name = name}) = 1
        /\ DictGet(agent_definitions, name).factory_function =
                BestOf(HistoryOf(name)).factory_function
        /\ DictGet(agent_definitions, name).metadata.priority =
                BestOf(HistoryOf(name)).priority

\* The operation just performed cleared the store.
Cleared(op) ==
    \/ op.op = "clear_registry"
    \/ op.op \in {"discover", "discover_agents"} /\ op.force /\ op.ran

\* A step that does not clear the store keeps every stored name and does
\* not lower its priority.
PriorityNeverDecreases ==
    ~Cleared(lastOp') =>
        \A name \in DictKeys(agent_definitions) :
            /\ name \in DictKeys(agent_definitions')
            /\ DictGet(agent_definitions', name).metadata.priority >=
                    DictGet(agent_definitions, name).metadata.priority

\* C2: after any sequence of promotions since the last clear the store holds
\* exactly one Definition per promoted name, the earliest promoted one of the
\* highest priority, and the stored priority of a name never decreases.
C2_HighestPriorityEarliestWins ==
    /\ []OneBestDefinition
    /\ [][PriorityNeverDecreases]_vars

\* One name was promoted three times, a higher priority after a lower one
\* and a priority that is not higher after another.
C2_Witness ==
    \E name \in PromotedNames :
        LET h == HistoryOf(name)
        IN  /\ Len(h) >= 3
            /\ \E i, j \in DOMAIN h : i < j /\ h[i].priority < h[j].priority
            /\ \E i, j \in DOMAIN h : i < j /\ h[i].priority >= h[j].priority

-----------------------------------------------------------------------------
(* Discovery *)

\* Executing the statement raises: a raise statement, or a marker whose
\* arguments AgentMetadata rejects.
StmtRaises(stmt) ==
    \/ stmt.kind = "raise"
    \/ stmt.kind = "marker"
        /\ ~MetadataValid(AgentNameOf(stmt.func_name), stmt.priority)

\* The markers of the file that run when the file is executed: the
\* statements before the first one that raises.
MarkersRun(f) ==
    {i \in DOMAIN source_files[f] :
        \A j \in 1..i : ~StmtRaises(source_files[f][j])}

FileFails(f) == \E i \in DOMAIN source_files[f] : StmtRaises(source_files[f][i])

\* The files a scan of the path imports.
Eligible(path) == {f \in GlobPy(path) : ~FileTable[f].dunder}

\* A discovery pass has just run through AgentManager.discover.
PassRan == lastOp.op = "discover" /\ lastOp.ran

\* C3: after a discovery pass the Definition stored for a name has the
\* highest priority among the marked factories of that name that were
\* registered through the marker, whichever marker ran first.
C3_HigherPriorityMarkerWins ==
    PassRan =>
        \A f \in SeqToSet(executed) : \A i \in MarkersRun(f) :
            LET name == AgentNameOf(source_files[f][i].func_name)
            IN  /\ name \in DictKeys(agent_definitions)
                /\ DictGet(agent_definitions, name).metadata.priority >=
                        source_files[f][i].priority

\* C4: the Definitions a forced discovery pass has produced are the ones it
\* produces under every order in which glob may enumerate the files.
C4_DiscoveryOrderIndependent ==
    (PassRan /\ lastOp.force) =>
        \A order \in GlobOrders :
            SeqToSet(discover_agents(Reg, TRUE, order).agent_definitions) =
                SeqToSet(agent_definitions)

-----------------------------------------------------------------------------
(* Instantiation *)

\* The Definitions whose enabled flag is set.
EnabledDefinitions ==
    {agent_definitions[i] : i \in {k \in DOMAIN agent_definitions :
                                        agent_definitions[k].metadata.enabled}}

\* C6: create_agent on a disabled Definition returns None without calling
\* its factory, and the bulk operations call only factories of Definitions
\* that are enabled.
C6_DisabledNeverInvoked ==
    /\ (/\ lastOp.op = "create_agent"
        /\ lastOp.name \in DictKeys(agent_definitions)
        /\ ~DictGet(agent_definitions, lastOp.name).metadata.enabled)
        => (called = <<>> /\ lastOp.ret.kind = "return" /\ lastOp.ret.none)
    /\ lastOp.op \in {"create_agent", "create_enabled_agents", "server_init"}
        => \A i \in DOMAIN called :
                \E d \in EnabledDefinitions : d.factory_function = called[i]

\* create_agent has just been called on a Definition that the marker
\* registered enabled and that was disabled afterwards.
C6_Witness ==
    /\ lastOp.op = "create_agent"
    /\ lastOp.name \in DictKeys(agent_definitions)
    /\ LET d == DictGet(agent_definitions, lastOp.name)
       IN  /\ ~d.metadata.enabled
           /\ d.factory_function.src \in Files
           /\ source_files[d.factory_function.src][d.factory_function.line].enabled

\* The (name, message) pairs of the enabled Definitions whose factory raises.
ExpectedFailures ==
    {[name |-> d.name, error |-> ErrorOf(d.factory_function)] :
        d \in {e \in EnabledDefinitions : e.factory_function.raises}}

\* C7: create_enabled_agents calls the factory of every enabled Definition
\* exactly once; if a factory raised it raises one RuntimeError that lists
\* every failed Definition with its message, and otherwise it returns.
C7_BulkAttemptsAllAndAggregates ==
    lastOp.op = "create_enabled_agents" =>
        /\ Len(called) = Cardinality(EnabledDefinitions)
        /\ \A d \in EnabledDefinitions :
                Cardinality({i \in DOMAIN called : called[i] = d.factory_function}) = 1
        /\ IF ExpectedFailures # {}
           THEN /\ lastOp.ret.kind = "raise"
                /\ lastOp.ret.exc = "RuntimeError"
                /\ SeqToSet(lastOp.ret.failed) = ExpectedFailures
                /\ Len(lastOp.ret.failed) = Cardinality(ExpectedFailures)
           ELSE lastOp.ret.kind = "return"

\* A bulk call in which two factories raised and a factory called after a
\* failing one succeeded.
C7_Witness ==
    /\ lastOp.op = "create_enabled_agents"
    /\ Len(lastOp.ret.failed) >= 2
    /\ \E i, j \in DOMAIN called : i < j /\ called[i].raises /\ ~called[j].raises

\* The agents built by the factories that the last operation called and
\* that did not raise, in call order.
Built == [i \in DOMAIN SelectSeq(called, LAMBDA f : ~f.raises) |->
            AgentOf(SelectSeq(called, LAMBDA f : ~f.raises)[i])]

\* What the caller of the last operation holds: the return value, or
\* nothing when the operation raised.
Received == IF lastOp.ret.kind = "return" THEN lastOp.ret.value ELSE <<>>

\* C8 as stated: bulk instantiation hands the caller every agent that was
\* built, also when other factories failed.
C8_BuiltAgentsReachCaller ==
    lastOp.op \in {"create_enabled_agents", "server_init"} => Received = Built

\* C8 as amended: when a factory fails, create_enabled_agents raises one
\* error that lists every failure and the caller receives none of the agents
\* that were built (Server.__init__ continues with no agents); the built
\* agents reach the caller only when no factory fails.
C8_FailureDiscardsBuiltAgents ==
    /\ lastOp.op = "create_enabled_agents" =>
        IF \E i \in DOMAIN called : called[i].raises
        THEN /\ lastOp.ret.kind = "raise"
             /\ Received = <<>>
             /\ SeqToSet(lastOp.ret.failed) = ExpectedFailures
        ELSE /\ lastOp.ret.kind = "return"
             /\ Received = Built
    /\ lastOp.op = "server_init" =>
        Received = IF \E i \in DOMAIN called : called[i].raises THEN <<>> ELSE Built

\* A bulk call in which one factory built an agent and another one raised.
C8_Witness ==
    /\ lastOp.op = "create_enabled_agents"
    /\ Built # <<>>
    /\ \E i \in DOMAIN called : called[i].raises

-----------------------------------------------------------------------------
(* The latch *)

\* C9: discover without force on a store whose discovery is completed
\* executes no file and leaves the definitions, the pending registrations
\* and the latch unchanged, and the discovery paths too when it is given no
\* paths.
C9_DiscoverWithoutForceIsNoOp ==
    [][(lastOp'.op = "discover" /\ ~lastOp'.force /\ discovery_completed) =>
        /\ executed' = <<>>
        /\ UNCHANGED <<agent_definitions, decorated_functions, discovery_completed,
                       promote_log, module_modification_times, failed_imports>>
        /\ lastOp'.paths = <<>> => UNCHANGED discovery_paths]_vars

\* discover() was called on a completed store that holds a pending
\* registration without a Definition and a failed import.
C9_Witness ==
    /\ lastOp.op = "discover"
    /\ ~lastOp.force
    /\ lastOp.latch
    /\ lastOp.paths = <<>>
    /\ failed_imports # {}
    /\ \E i \in DOMAIN decorated_functions :
            decorated_functions[i].name \notin DictKeys(agent_definitions)

\* C10: after a forced discovery pass every Definition and every pending
\* registration holds a function created by a file executed in that pass,
\* with the enabled flag its marker gave it, and every eligible file of
\* every discovery path was executed in the pass.
C10_ForcedDiscoveryStartsFromScratch ==
    (PassRan /\ lastOp.force) =>
        /\ \A i \in DOMAIN agent_definitions :
            LET d == agent_definitions[i]
            IN  /\ ~d.factory_function.stale
                /\ d.factory_function.src \in SeqToSet(executed)
                /\ d.metadata.enabled =
                    source_files[d.factory_function.src][d.factory_function.line].enabled
        /\ \A i \in DOMAIN decorated_functions :
            /\ ~decorated_functions[i].func.stale
            /\ decorated_functions[i].func.src \in SeqToSet(executed)
        /\ \A p \in SeqToSet(discovery_paths) : \A f \in Eligible(p) :
                f \in SeqToSet(executed)

\* A forced pass over a store whose discovery was completed has produced
\* Definitions.
C10_Witness ==
    /\ PassRan
    /\ lastOp.force
    /\ lastOp.latch
    /\ agent_definitions # <<>>

-----------------------------------------------------------------------------
(* Clearing the store *)

\* What a Definition says: its name, the factory that won it, its priority,
\* its tags and its enabled flag.
Described(d) ==
    [name |-> d.name,
     factory |-> [src |-> d.factory_function.src, line |-> d.factory_function.line,
                  func_name |-> d.factory_function.func_name],
     priority |-> d.metadata.priority, tags |-> d.metadata.tags,
     enabled |-> d.metadata.enabled]

DescribedSet(defs) == {Described(defs[i]) : i \in DOMAIN defs}

\* The Definitions of the first discover() of a fresh process that scans
\* the given discovery paths, glob yielding the files in the given order.
FreshDiscovery(paths, order) ==
    discover_agents([NewRegistry EXCEPT !.discovery_paths = paths], FALSE, order).agent_definitions

\* A discovery pass has just run, called immediately after clear_registry.
DiscoveredAfterClear ==
    /\ lastOp.op = "discover"
    /\ lastOp.ran
    /\ lastOp.wiped # "no"

C12_ClearFrame ==
    [][lastOp'.op = "clear_registry" =>
        /\ agent_definitions' = <<>>
        /\ decorated_functions' = <<>>
        /\ ~discovery_completed'
        /\ discovery_paths' = discovery_paths]_vars

\* clear_registry has just run on a completed store that held entries and
\* whose discovery paths were not the default ones.
C12_Witness ==
    /\ lastOp.op = "clear_registry"
    /\ lastOp.wiped # "nothing"
    /\ lastOp.latch
    /\ discovery_paths # NewRegistry.discovery_paths

-----------------------------------------------------------------------------
(* Pending registrations *)

\* What a pending entry holds: the name, the function and the metadata the
\* marker built (the enabled flag apart, which enable_agent and
\* disable_agent set on the shared metadata object).
PendingSays(e) ==
    [name |-> e.name,
     func |-> [src |-> e.func.src, line |-> e.func.line, func_name |-> e.func.func_name],
     priority |-> e.agent_metadata.priority, tags |-> e.agent_metadata.tags]

\* No two pending entries have the same name.
NoDuplicatePending ==
    \A i, j \in DOMAIN decorated_functions :
        decorated_functions[i].name = decorated_functions[j].name => i = j

\* A step that does not clear the store keeps every pending entry with its
\* function and metadata; a marker that runs for a name that is pending
\* leaves the pending registrations and the Definitions as they are and
\* raises nothing.
PendingFirstWins ==
    /\ ~Cleared(lastOp') =>
            /\ Len(decorated_functions') >= Len(decorated_functions)
            /\ \A i \in DOMAIN decorated_functions :
                    PendingSays(decorated_functions'[i]) = PendingSays(decorated_functions[i])
    /\ (lastOp'.op = "register_agent" /\ lastOp'.name \in DictKeys(decorated_functions)) =>
            /\ UNCHANGED <<decorated_functions, agent_definitions>>
            /\ lastOp'.ret.kind = "return"

\* C13: registering a name that already has a pending entry changes
\* nothing: the first function and its metadata remain, no name ever has
\* two pending entries, and the marker does not raise.
C13_PendingRegistrationIdempotent ==
    /\ []NoDuplicatePending
    /\ [][PendingFirstWins]_vars

\* The marker has just run in an application module for a name whose
\* pending entry was made by another function, in a discovered file.
C13_Witness ==
    /\ lastOp.op = "register_agent"
    /\ lastOp.name \in DictKeys(decorated_functions)
    /\ DictGet(decorated_functions, lastOp.name).func.src \in Files

\* A discovery pass has just completed, run by AgentManager.discover or by
\* Server.__init__.
PassCompleted ==
    /\ lastOp.op \in {"discover", "server_init"}
    /\ lastOp.ran
    /\ lastOp.ret.kind = "return"

\* C14: when a discovery pass has completed, every pending name has a
\* Definition, made of the pending function and its metadata, and was
\* passed to _register_agent_definition since the last clear.
C14_PendingPromotedAfterPass ==
    PassCompleted =>
        \A i \in DOMAIN decorated_functions :
            LET e == decorated_functions[i]
            IN  /\ e.name \in DictKeys(agent_definitions)
                /\ DictGet(agent_definitions, e.name).factory_function = e.func
                /\ DictGet(agent_definitions, e.name).metadata = e.agent_metadata
                /\ \E k \in DOMAIN promote_log :
                        /\ promote_log[k].name = e.name
                        /\ promote_log[k].factory_function = e.func

\* A pass has completed that promoted a registration made by a marker
\* outside of discovery and a registration made by a file of the pass.
C14_Witness ==
    /\ PassCompleted
    /\ \E i, j \in DOMAIN decorated_functions :
        /\ decorated_functions[i].func.src = "app"
        /\ decorated_functions[j].func.src \in SeqToSet(executed)

-----------------------------------------------------------------------------
(* The definitions mapping *)

\* C15: the definitions mapping holds at most one Definition per name, and
\* the name under which a Definition is stored is not empty and equals its
\* metadata.name.
C15_OneDefinitionPerName ==
    /\ \A i, j \in DOMAIN agent_definitions :
            agent_definitions[i].name = agent_definitions[j].name => i = j
    /\ \A i \in DOMAIN agent_definitions :
            /\ agent_definitions[i].name # <<>>
            /\ agent_definitions[i].name = agent_definitions[i].metadata.name

\* A registration whose name differs from its metadata.name has just been
\* passed for a stored name with a priority above the stored one, after the
\* Definition of the name had been replaced once.
C15_Witness ==
    /\ lastOp.op = "promote_malformed"
    /\ lastOp.name \in DictKeys(agent_definitions)
    /\ DictGet(agent_definitions, lastOp.name).metadata.priority <
            lastOp.cand.metadata.priority
    /\ Len(HistoryOf(lastOp.name)) >= 3

-----------------------------------------------------------------------------
(* The facade's discover *)

\* C16: AgentManager.discover raises ValueError when one of the paths given
\* does not exist, and then no file is executed and Definitions, pending
\* registrations and latch stay as they are; when all paths exist they are
\* in discovery_paths afterwards, the latch is set, a pass that runs (forced,
\* or on a store not yet completed) covers the eligible files of the given
\* paths, and the count returned is the number of Definitions in the store.
C16_DiscoverChecksPathsAndCounts ==
    [][lastOp'.op = "discover" =>
        IF \E i \in DOMAIN lastOp'.paths : ~PathExists(lastOp'.paths[i])
        THEN /\ lastOp'.ret.kind = "raise"
             /\ lastOp'.ret.exc = "ValueError"
             /\ executed' = <<>>
             /\ UNCHANGED <<agent_definitions, decorated_functions, discovery_completed,
                            module_modification_times, failed_imports>>
        ELSE /\ lastOp'.ret.kind = "return"
             /\ lastOp'.ret.count = Len(agent_definitions')
             /\ discovery_completed'
             /\ \A i \in DOMAIN lastOp'.paths :
                    /\ Resolve(lastOp'.paths[i]) \in SeqToSet(discovery_paths')
                    /\ (lastOp'.force \/ ~discovery_completed) =>
                            \A f \in Eligible(Resolve(lastOp'.paths[i])) :
                                \/ f \in SeqToSet(executed')
                                \/ ~lastOp'.force /\ f \in module_modification_times
             /\ \A i \in DOMAIN discovery_paths :
                    discovery_paths[i] \in SeqToSet(discovery_paths')]_vars

\* A forced discover has just been refused for a path that does not exist,
\* on a completed store that holds Definitions.
C16_Witness ==
    /\ lastOp.op = "discover"
    /\ lastOp.ret.kind = "raise"
    /\ lastOp.force
    /\ lastOp.latch
    /\ agent_definitions # <<>>

\* The last operation called AgentManager.discover with one path, an
\* existing directory without an eligible file.
DiscoverOnEmptyDirectory(op) ==
    /\ op.op = "discover"
    /\ Len(op.paths) = 1
    /\ PathExists(op.paths[1])
    /\ Eligible(Resolve(op.paths[1])) = {}

-----------------------------------------------------------------------------
(* The order of bulk instantiation and of listing *)

\* The enabled Definition whose factory made the agent.
MakerOf(agent) ==
    CHOOSE d \in EnabledDefinitions : AgentOf(d.factory_function) = agent

\* a comes before b: higher priority first, then the smaller name.
ComesBefore(a, b) ==
    \/ a.metadata.priority > b.metadata.priority
    \/ /\ a.metadata.priority = b.metadata.priority
       /\ NameLess(a.name, b.name)

\* C18: when no factory fails, create_enabled_agents returns one agent per
\* enabled Definition, made by its factory, in the order of get_enabled():
\* priority descending, then name ascending.
C18_BulkResultInListOrder ==
    (lastOp.op = "create_enabled_agents" /\ lastOp.ret.kind = "return") =>
        LET agents == lastOp.ret.value
        IN  /\ Len(agents) = Cardinality(EnabledDefinitions)
            /\ \A d \in EnabledDefinitions :
                    Cardinality({i \in DOMAIN agents :
                                    agents[i] = AgentOf(d.factory_function)}) = 1
            /\ \A i, j \in DOMAIN agents :
                    i < j => ComesBefore(MakerOf(agents[i]), MakerOf(agents[j]))
            /\ agents = [i \in DOMAIN get_enabled(Reg) |->
                            AgentOf(get_enabled(Reg)[i].factory_function)]

\* create_enabled_agents has returned at least three agents, two of them of
\* Definitions of equal priority that were installed in the reverse order
\* of their names.
C18_Witness ==
    /\ lastOp.op = "create_enabled_agents"
    /\ lastOp.ret.kind = "return"
    /\ Len(lastOp.ret.value) >= 3
    /\ \E i, j \in DOMAIN agent_definitions :
        /\ i < j
        /\ agent_definitions[i].metadata.enabled
        /\ agent_definitions[j].metadata.enabled
        /\ agent_definitions[i].metadata.priority = agent_definitions[j].metadata.priority
        /\ NameLess(agent_definitions[j].name, agent_definitions[i].name)

\* C19: create_agent on an enabled Definition whose factory raises calls the
\* factory once and raises RuntimeError carrying the name and the
\* description of the factory's error; the store is left as it was.
C19_FactoryErrorWrapped ==
    [][(/\ lastOp'.op = "create_agent"
        /\ lastOp'.name \in DictKeys(agent_definitions)
        /\ DictGet(agent_definitions, lastOp'.name).metadata.enabled
        /\ DictGet(agent_definitions, lastOp'.name).factory_function.raises) =>
            LET func == DictGet(agent_definitions, lastOp'.name).factory_function
            IN  /\ called' = <<func>>
                /\ lastOp'.ret.kind = "raise"
                /\ lastOp'.ret.exc = "RuntimeError"
                /\ lastOp'.ret.failed =
                        <<[name |-> lastOp'.name, error |-> ErrorOf(func)]>>
                /\ UNCHANGED <<agent_definitions, decorated_functions, discovery_paths,
                               discovery_completed, module_modification_times,
                               failed_imports, promote_log>>]_vars

\* create_agent has just raised for a Definition whose marker registered it
\* disabled and that was enabled afterwards.
C19_Witness ==
    /\ lastOp.op = "create_agent"
    /\ lastOp.ret.kind = "raise"
    /\ LET func == DictGet(agent_definitions, lastOp.name).factory_function
       IN  /\ func.src \in Files
           /\ ~source_files[func.src][func.line].enabled

\* The Definitions of the store in another order of installation.
Reinstalled(p) == [i \in DOMAIN p |-> agent_definitions[p[i]]]

\* C20: list_agents returns exactly the Definitions that match the filter
\* (all of them without a filter), each once, by priority descending and
\* then name ascending; any two Definitions of the store are ordered, and
\* the result is the same for every order of installation.
C20_ListFilteredAndOrdered ==
    lastOp.op = "list_agents" =>
        LET out == lastOp.ret.value
            matching == {d \in SeqToSet(agent_definitions) : matches(lastOp.filter, d)}
        IN  /\ SeqToSet(out) = matching
            /\ Len(out) = Cardinality(matching)
            /\ lastOp.filter = NoFilter => matching = SeqToSet(agent_definitions)
            /\ \A i, j \in DOMAIN out : i < j => ComesBefore(out[i], out[j])
            /\ \A a, b \in SeqToSet(agent_definitions) :
                    a # b => (ComesBefore(a, b) \/ ComesBefore(b, a))
            /\ \A p \in Orderings(DOMAIN agent_definitions) :
                    list_agents([Reg EXCEPT !.agent_definitions = Reinstalled(p)],
                                lastOp.filter) = out

\* list_agents has just left out a Definition that the filter rejects and
\* has returned two Definitions of equal priority that were installed in
\* the reverse order of their names.
C20_Witness ==
    /\ lastOp.op = "list_agents"
    /\ Len(lastOp.ret.value) < Len(agent_definitions)
    /\ \E i, j \in DOMAIN agent_definitions :
        /\ i < j
        /\ agent_definitions[i] \in SeqToSet(lastOp.ret.value)
        /\ agent_definitions[j] \in SeqToSet(lastOp.ret.value)
        /\ agent_definitions[i].metadata.priority = agent_definitions[j].metadata.priority
        /\ NameLess(agent_definitions[j].name, agent_definitions[i].name)

-----------------------------------------------------------------------------
(* C21 *)

\* What the criteria of a filter ask of a Definition: an absent criterion
\* (None, an empty tag list, no custom criterion) asks nothing.
CriteriaHold(f, d) ==
    /\ f.enabled.some => d.metadata.enabled = f.enabled.val
    /\ f.priority_min.some => d.metadata.priority >= f.priority_min.val
    /\ f.priority_max.some => d.metadata.priority <= f.priority_max.val
    /\ (f.tags.some /\ f.tags.val # <<>>) =>
            SeqToSet(f.tags.val) \cap SeqToSet(d.metadata.tags) # {}
    /\ f.custom_criteria \subseteq d.metadata.custom_attributes

\* C21: list_agents with a filter returns exactly the Definitions for which
\* every configured criterion holds (enabled equal, priority within the
\* range, at least one tag of the filter among the tags, every custom key
\* present with an equal value), an absent criterion holding always; the
\* filter tags = ["core"] alone yields exactly the Definitions tagged
\* "core"; and the call changes nothing in the store.
C21_FilterMatchesConfiguredCriteria ==
    /\ [](lastOp.op = "list_agents" =>
            /\ SeqToSet(lastOp.ret.value) =
                    {d \in SeqToSet(agent_definitions) : CriteriaHold(lastOp.filter, d)}
            /\ \A d \in SeqToSet(agent_definitions) :
                    matches(lastOp.filter, d) <=> CriteriaHold(lastOp.filter, d)
            /\ lastOp.filter =
                    AgentFilter(Some(<<"core">>), NoneValue, NoneValue, NoneValue,
                                NoneValue, {}) =>
                    SeqToSet(lastOp.ret.value) =
                        {d \in SeqToSet(agent_definitions) :
                            "core" \in SeqToSet(d.metadata.tags)})
    /\ [][lastOp'.op = "list_agents" =>
            UNCHANGED <<agent_definitions, decorated_functions, discovery_paths,
                        discovery_completed, module_modification_times,
                        failed_imports>>]_vars

\* list_agents has just been called with a tags and a custom criterion,
\* and has left out one Definition for its tags alone and another one for
\* its custom attributes alone.
C21_Witness ==
    /\ lastOp.op = "list_agents"
    /\ lastOp.filter.tags = Some(<<"docs", "ops">>)
    /\ lastOp.filter.custom_criteria = {<<"team", "a">>, <<"tier", "2">>}
    /\ lastOp.ret.value # <<>>
    /\ \E d, e \in SeqToSet(agent_definitions) \ SeqToSet(lastOp.ret.value) :
        /\ lastOp.filter.custom_criteria \subseteq d.metadata.custom_attributes
        /\ "docs" \notin SeqToSet(d.metadata.tags)
        /\ "docs" \in SeqToSet(e.metadata.tags)
        /\ <<"team", "b">> \in e.metadata.custom_attributes

-----------------------------------------------------------------------------
(* C22 *)

\* The strings of a list of tags given to get_by_tags.
GivenTags(tags) == {tags.items[k].str : k \in DOMAIN tags.items}

\* C22: for a non-empty list of tags get_by_tags returns, each once,
\* exactly the Definitions whose tags contain every given tag when
\* match_all is true and at least one given tag when it is false; for an
\* empty list or an argument that is not a list it returns the empty list.
C22_GetByTagsAnyOrAll ==
    lastOp.op = "get_by_tags" =>
        LET tags == lastOp.cand.tags
            out == lastOp.ret.value
            wanted == {d \in SeqToSet(agent_definitions) :
                        IF lastOp.cand.match_all
                        THEN GivenTags(tags) \subseteq SeqToSet(d.metadata.tags)
                        ELSE GivenTags(tags) \cap SeqToSet(d.metadata.tags) # {}}
        IN  IF tags.type = "list" /\ tags.items # <<>>
            THEN SeqToSet(out) = wanted /\ Len(out) = Cardinality(wanted)
            ELSE out = <<>>

\* get_by_tags has just been asked for every one of two tags, has returned
\* a Definition, and has left out a Definition that carries one of the two.
C22_Witness ==
    /\ lastOp.op = "get_by_tags"
    /\ lastOp.cand.match_all
    /\ lastOp.cand.tags = PyList(<<PyStr("core"), PyStr("docs")>>)
    /\ lastOp.ret.value # <<>>
    /\ \E d \in SeqToSet(agent_definitions) \ SeqToSet(lastOp.ret.value) :
            "core" \in SeqToSet(d.metadata.tags)

-----------------------------------------------------------------------------
(* C23 *)

\* C23: enable(name) and disable(name) with the name of a Definition
\* return true and set the enabled flag of the metadata of that Definition,
\* and nothing else: every other field of it, every other Definition, the
\* names, functions and other metadata fields of the pending functions,
\* the discovery paths, the latch and the import records stay as they
\* were (the flag is seen through the pending function that carries the
\* same metadata object, and through no other); with an unknown name, an
\* empty name or None they return false and change nothing; and the same
\* call made again changes nothing more and returns the same value.
C23_ToggleSetsOneFlag ==
    [][lastOp'.op \in {"enable", "disable"} =>
        LET name == lastOp'.name
            value == (lastOp'.op = "enable")
            known == /\ lastOp'.cand.arg.type = "str"
                     /\ name # <<>>
                     /\ name \in DictKeys(agent_definitions)
            again == IF value THEN enable(Reg', lastOp'.cand.arg)
                     ELSE disable(Reg', lastOp'.cand.arg)
        IN  /\ lastOp'.ret = ReturnedBool(known)
            /\ UNCHANGED <<discovery_paths, discovery_completed,
                           module_modification_times, failed_imports, source_files>>
            /\ DOMAIN agent_definitions' = DOMAIN agent_definitions
            /\ DOMAIN decorated_functions' = DOMAIN decorated_functions
            /\ \A i \in DOMAIN agent_definitions :
                    agent_definitions'[i] =
                        IF known /\ agent_definitions[i].name = name
                        THEN [agent_definitions[i] EXCEPT !.metadata.enabled = value]
                        ELSE agent_definitions[i]
            /\ \A i \in DOMAIN decorated_functions :
                    LET old == decorated_functions[i]
                        new == decorated_functions'[i]
                    IN  /\ [new EXCEPT !.agent_metadata.enabled =
                                            old.agent_metadata.enabled] = old
                        /\ new # old =>
                                /\ known
                                /\ old.name = name
                                /\ old.func =
                                     DictGet(agent_definitions, name).factory_function
            /\ ~known => UNCHANGED <<agent_definitions, decorated_functions>>
            /\ again.R = Reg'
            /\ again.ret = lastOp'.ret]_vars

\* disable has just switched off one of several Definitions, which its
\* marker had registered as enabled.
C23_Witness ==
    /\ lastOp.op = "disable"
    /\ lastOp.ret = ReturnedBool(TRUE)
    /\ Len(agent_definitions) >= 2
    /\ LET d == DictGet(agent_definitions, lastOp.name)
       IN  /\ ~d.metadata.enabled
           /\ d.factory_function.src \in Files
           /\ source_files[d.factory_function.src][d.factory_function.line].enabled
    /\ \E e \in SeqToSet(agent_definitions) : e.metadata.enabled

-----------------------------------------------------------------------------
(* C24 *)

\* C24: the files a discovery pass has imported from the discovery paths
\* are the module files directly inside a path whose name does not begin
\* with "__" and that are not files of the discovery engine itself; no
\* file of the engine is ever imported.
C24_EngineFilesNeverImported ==
    PassRan =>
        /\ SeqToSet(executed) =
                UNION {Eligible(discovery_paths[i]) \ EngineFiles :
                            i \in DOMAIN discovery_paths}
        /\ module_modification_times \cap EngineFiles = {}

-----------------------------------------------------------------------------
(* C25 *)

-----------------------------------------------------------------------------
(* C26 *)

\* s without its element number k.
WithoutIndex(s, k) == SubSeq(s, 1, k - 1) \o SubSeq(s, k + 1, Len(s))

-----------------------------------------------------------------------------
(* C27 *)

\* The file holds marked functions only, so that nothing but the
\* validation of a registration can fail in it.
OnlyMarkers(f) ==
    \A k \in DOMAIN source_files[f] : source_files[f][k].kind = "marker"

\* C27: after a discovery pass that has raised nothing, every marked
\* function with valid arguments in a scanned file of marked functions has
\* a Definition of its name, also when the arguments of another marked
\* function of the same file were rejected.
C27_ValidationFailureStaysLocal ==
    PassRan =>
        /\ lastOp.ret.kind = "return"
        /\ \A i \in DOMAIN discovery_paths :
            \A f \in Eligible(discovery_paths[i]) :
                OnlyMarkers(f) =>
                    \A k \in DOMAIN source_files[f] :
                        LET stmt == source_files[f][k]
                        IN  MetadataValid(AgentNameOf(stmt.func_name), stmt.priority) =>
                                AgentNameOf(stmt.func_name) \in DictKeys(agent_definitions)

-----------------------------------------------------------------------------
(* C28 *)

\* C28: the construction of an AgentMetadata raises ValueError whenever
\* the name is the empty string or the priority is a negative integer; it
\* returns the object, with the fields given, whenever the name is a
\* non-empty string, the priority an integer >= 0 and tags and
\* dependencies lists of strings; and a construction that raises returns
\* no object.
C28_MetadataValidation ==
    lastOp.op = "AgentMetadata" =>
        LET args == lastOp.cand.args
            ret == lastOp.ret
        IN  /\ (args.name = PyStr("") \/
                    (args.priority.type = "int" /\ args.priority.int < 0)) =>
                    ret.kind = "raise" /\ ret.exc = "ValueError"
            /\ (/\ args.name.type = "str" /\ args.name.str # ""
                /\ args.priority.type = "int" /\ args.priority.int >= 0
                /\ ListOfStr(args.tags)
                /\ ListOfStr(args.dependencies)) =>
                    /\ ret.kind = "return"
                    /\ ret.value.name = args.name
                    /\ ret.value.priority = args.priority
                    /\ ret.value.tags = args.tags
                    /\ ret.value.dependencies = args.dependencies
            /\ ret.kind \in {"raise", "return"}
            /\ ret.kind = "raise" => ret.value = <<>>

\* A construction with a good name, good tags and good dependencies has
\* just failed on a negative priority.
C28_Witness ==
    /\ lastOp.op = "AgentMetadata"
    /\ lastOp.cand.args.name = PyStr("Docs Agent")
    /\ lastOp.cand.args.priority = PyInt(0 - 1)
    /\ ListOfStr(lastOp.cand.args.tags) /\ lastOp.cand.args.tags.items # <<>>
    /\ ListOfStr(lastOp.cand.args.dependencies)
    /\ lastOp.ret.kind = "raise"

-----------------------------------------------------------------------------
(* C29 *)

\* C29: no marked function runs during an operation other than
\* create_agent and create_enabled_agents: not during a discovery pass, a
\* listing, a query by tags, disable or the construction of metadata.
C29_FactoriesRunOnlyOnInstantiation ==
    lastOp.op \notin {"create_agent", "create_enabled_agents", "server_init"} =>
        called = <<>> /\ invoked = <<>>

-----------------------------------------------------------------------------
(* C30 *)

\* C30: there is one store: once it is constructed it stays the instance
\* for good, the first construction fills it with the default paths, and
\* every later construction leaves its Definitions, pending functions,
\* discovery paths, latch and import records as they are.
C30_ConstructionIdempotent ==
    /\ [][_initialized => _initialized']_vars
    /\ [][lastOp'.op = "AgentRegistry" =>
            /\ _initialized'
            /\ IF _initialized
               THEN UNCHANGED <<agent_definitions, decorated_functions, discovery_paths,
                               discovery_completed, module_modification_times,
                               failed_imports>>
               ELSE /\ agent_definitions' = <<>>
                    /\ decorated_functions' = <<>>
                    /\ discovery_paths' = <<"definitions", "agents">>
                    /\ ~discovery_completed']_vars

\* AgentRegistry() has just been called on a store that holds Definitions,
\* has completed discovery and has got a path besides the default paths.
C30_Witness ==
    /\ lastOp.op = "AgentRegistry"
    /\ agent_definitions # <<>>
    /\ discovery_completed
    /\ discovery_paths = <<"definitions", "agents", "extra">>

-----------------------------------------------------------------------------
(* C31 *)

ReadOps == {"get_all", "get", "get_enabled", "get_by_tags", "get_by_pattern"}

\* C31: get_all, get_enabled, get, get_by_tags and get_by_pattern are pure
\* projections: a call executes no file and calls no factory, and leaves the
\* Definitions, the pending registrations, the discovery paths and the latch
\* as they were; get_all is the listing of the store, get_enabled its enabled
\* part and get the stored Definition of the name; called while no discovery
\* has completed, each returns the empty list, or None for get.
C31_ReadsArePureProjections ==
    [][lastOp'.op \in ReadOps =>
        /\ lastOp'.ret.kind = "return"
        /\ executed' = <<>> /\ called' = <<>>
        /\ agent_definitions' = agent_definitions
        /\ decorated_functions' = decorated_functions
        /\ discovery_paths' = discovery_paths
        /\ discovery_completed' = discovery_completed
        /\ module_modification_times' = module_modification_times
        /\ failed_imports' = failed_imports
        /\ (lastOp'.op = "get_all" =>
                lastOp'.ret.value = SortByKey(agent_definitions))
        /\ (lastOp'.op = "get_enabled" =>
                lastOp'.ret.value =
                    SelectSeq(SortByKey(agent_definitions), LAMBDA d : d.metadata.enabled))
        /\ (lastOp'.op = "get" =>
                IF lastOp'.ret.none
                THEN lastOp'.name \notin DictKeys(agent_definitions)
                ELSE \E i \in DOMAIN agent_definitions :
                        /\ agent_definitions[i].name = lastOp'.name
                        /\ lastOp'.ret.value = <<agent_definitions[i]>>)
        /\ (~discovery_completed =>
                /\ lastOp'.ret.value = <<>>
                /\ (lastOp'.op = "get" => lastOp'.ret.none))]_vars

\* Before any discovery, a get of a name that is pending answers None.
C31_Witness ==
    /\ lastOp.op = "get" /\ lastOp.ret.none
    /\ lastOp.name \in DictKeys(decorated_functions)
    /\ ~discovery_completed
    /\ module_modification_times = {}

-----------------------------------------------------------------------------
(* C32 *)

\* The entries of a store apart from their enabled flags.
FlagsAside(defs) ==
    [i \in DOMAIN defs |-> [defs[i] EXCEPT !.metadata.enabled = TRUE]]

PendingFlagsAside(pending) ==
    [i \in DOMAIN pending |-> [pending[i] EXCEPT !.agent_metadata.enabled = TRUE]]

\* C32: the latch turns from false to true only in an operation that ran a
\* discovery pass, and from true to false only in clear_registry; a pass
\* that starts while the latch is true belongs to a forced discover.  While
\* the latch is true, an operation other than clear_registry and a forced
\* discover adds, removes and replaces no Definition: only enable and
\* disable change the store, and only in enabled flags; the pending
\* registrations are kept, a function marked then is pending and gets no
\* Definition, neither at once nor by a later discover without force.
C32_LatchGuardsDefinitions ==
    [][/\ (~discovery_completed /\ discovery_completed') =>
            lastOp'.ran /\ lastOp'.op \in {"discover", "server_init"}
       /\ (discovery_completed /\ ~discovery_completed') =>
            lastOp'.op = "clear_registry"
       /\ (discovery_completed /\ lastOp'.ran) =>
            lastOp'.op = "discover" /\ lastOp'.force
       /\ (discovery_completed /\ lastOp'.op # "clear_registry" /\ ~lastOp'.ran) =>
            /\ discovery_completed'
            /\ FlagsAside(agent_definitions') = FlagsAside(agent_definitions)
            /\ agent_definitions' # agent_definitions =>
                    lastOp'.op \in {"enable", "disable"}
            /\ Len(decorated_functions') >= Len(decorated_functions)
            /\ SubSeq(PendingFlagsAside(decorated_functions'), 1, Len(decorated_functions))
                    = PendingFlagsAside(decorated_functions)
            /\ (lastOp'.op = "register_agent" /\ lastOp'.ret.kind = "return") =>
                    lastOp'.name \in DictKeys(decorated_functions')]_vars

\* A discover without force has just returned on a discovered store in which
\* a function marked after the discovery is pending without a Definition.
C32_Witness ==
    /\ lastOp.op = "discover" /\ ~lastOp.force /\ ~lastOp.ran
    /\ lastOp.ret.kind = "return"
    /\ lastOp.latch /\ discovery_completed
    /\ agent_definitions # <<>>
    /\ \E i \in DOMAIN decorated_functions :
            /\ decorated_functions[i].func.src = "app"
            /\ decorated_functions[i].name \notin DictKeys(agent_definitions)

-----------------------------------------------------------------------------
(* C33 *)

\* The function that statement i of file f defines, as a pass creates it.
MarkedBy(f, i) ==
    [src |-> f, line |-> i, func_name |-> source_files[f][i].func_name,
     raises |-> source_files[f][i].raises, stale |-> FALSE]

\* C33: after a discovery pass, a file whose execution raised is recorded as
\* a failed import, and yet every marker of it that precedes the failing
\* statement has registered: its name is pending and has a Definition, and
\* where the pending entry is the function of that marker, the Definition
\* of the name is that function, promoted by this pass; a marker at or
\* after the failing statement has left no pending entry and no Definition.
C33_FailedImportKeepsRegistrations ==
    PassRan =>
        \A f \in SeqToSet(executed) : FileFails(f) =>
            /\ f \in failed_imports
            /\ f \notin module_modification_times
            /\ \A i \in MarkersRun(f) :
                LET name == AgentNameOf(source_files[f][i].func_name)
                IN  /\ name \in DictKeys(decorated_functions)
                    /\ name \in DictKeys(agent_definitions)
                    /\ DictGet(decorated_functions, name).func = MarkedBy(f, i) =>
                            DictGet(agent_definitions, name).factory_function = MarkedBy(f, i)
            /\ \A i \in DOMAIN source_files[f] \ MarkersRun(f) :
                /\ \A k \in DOMAIN decorated_functions :
                        ~(decorated_functions[k].func.src = f
                            /\ decorated_functions[k].func.line = i)
                /\ \A k \in DOMAIN agent_definitions :
                        ~(agent_definitions[k].factory_function.src = f
                            /\ agent_definitions[k].factory_function.line = i)

\* A pass has executed a file that raised after its first marker: the
\* function of that marker is the Definition of its name, and the marker
\* that follows the failing statement has registered nothing.
C33_Witness ==
    /\ PassRan
    /\ \E f \in SeqToSet(executed) :
        /\ f \in failed_imports
        /\ \E i \in MarkersRun(f) :
            /\ source_files[f][i].kind = "marker"
            /\ \E k \in DOMAIN agent_definitions :
                    agent_definitions[k].factory_function = MarkedBy(f, i)
        /\ \E j \in DOMAIN source_files[f] \ MarkersRun(f) :
            /\ source_files[f][j].kind = "marker"
            /\ ~StmtRaises(source_files[f][j])

-----------------------------------------------------------------------------
(* C34 *)

-----------------------------------------------------------------------------
(* C35 *)

\* The number of the first path of the list that does not exist.
FirstMissing(paths) ==
    CHOOSE k \in DOMAIN paths :
        /\ ~PathExists(paths[k])
        /\ \A j \in 1..(k - 1) : PathExists(paths[j])

\* C35: AgentManager.discover raises exactly when one of the paths given
\* does not exist, and then it has executed no file and left Definitions,
\* pending registrations, import records and latch unchanged, while
\* discovery_paths has grown by the paths that precede the first missing
\* one, and by no other: the paths that were there keep their places, and a
\* path at or after the missing one is a discovery path afterwards only if
\* it was one before or also precedes the missing one.
C35_RefusedDiscoverKeepsEarlierPaths ==
    [][lastOp'.op = "discover" =>
        /\ lastOp'.ret.kind = "raise" <=>
                \E i \in DOMAIN lastOp'.paths : ~PathExists(lastOp'.paths[i])
        /\ lastOp'.ret.kind = "raise" =>
            LET k == FirstMissing(lastOp'.paths)
                before == {Resolve(lastOp'.paths[j]) : j \in 1..(k - 1)}
            IN  /\ lastOp'.ret.exc = "ValueError"
                /\ executed' = <<>>
                /\ UNCHANGED <<agent_definitions, decorated_functions, discovery_completed,
                               module_modification_times, failed_imports>>
                /\ SubSeq(discovery_paths', 1, Len(discovery_paths)) = discovery_paths
                /\ SeqToSet(discovery_paths') = SeqToSet(discovery_paths) \cup before
                /\ \A i, j \in DOMAIN discovery_paths' :
                        discovery_paths'[i] = discovery_paths'[j] => i = j
                /\ \A j \in k..Len(lastOp'.paths) :
                        Resolve(lastOp'.paths[j]) \in SeqToSet(discovery_paths') =>
                            Resolve(lastOp'.paths[j]) \in SeqToSet(discovery_paths) \cup before]_vars

\* A discover has just been refused for the second of three paths: the
\* first one is a discovery path, the third one is not.
C35_Witness ==
    /\ lastOp.op = "discover"
    /\ lastOp.ret.kind = "raise"
    /\ lastOp.paths = <<"extra/.", "missing", "empty">>
    /\ discovery_paths = <<"definitions", "agents", "extra">>
    /\ "empty" \notin SeqToSet(discovery_paths)

-----------------------------------------------------------------------------
(* C36 *)

LazyOps == {"__iter__", "__len__", "__getitem__", "__bool__", "append", "extend", "insert"}

\* The calls of MCPTools(...) among the events, and the tools that the
\* successful ones returned.
Connections(events) == SelectSeq(events, LAMBDA e : e.ev = "connect")

ToolsOf(events) ==
    LET made == SelectSeq(events, LAMBDA e : e.ev = "connect" /\ e.ok)
    IN  [i \in DOMAIN made |-> MCPTools(made[i].name)]

\* The connections started: the first attempts.
Started(events) == SelectSeq(events, LAMBDA e : e.ev = "connect" /\ e.attempt = 0)

\* The items of the list after the method op with argument arg.
ItemsAfter(op, arg, items) ==
    CASE op = "append" -> Append(items, arg)
      [] op = "extend" -> items \o arg
      [] op = "insert" -> <<arg.item>> \o items
      [] OTHER -> items

\* C36: MCPManager.get without immediate connects to nothing and returns a
\* list that is empty and not loaded.  The first method called on the list
\* (iteration, len, indexing, truth test, append, extend, insert) starts
\* the load unless DISABLE_MCP is set: the configs are connected in their
\* order, all of them when the method returns, and up to the one whose
\* connection raised otherwise (outside development mode); the tools
\* connected are the items of the list, before those the caller adds.
\* Every later method call connects to nothing, leaves the flags alone and
\* works on the items the load left, also after a load that raised or was
\* skipped and whatever the environment says then.
C36_LazyListLoadsAtMostOnce ==
    [][/\ (lastOp'.op = "get" /\ ~lastOp'.args.immediate) =>
            /\ lastOp'.events = <<>>
            /\ lastOp'.ret.kind = "return" =>
                    /\ lazy_list'.made
                    /\ ~lazy_list'._loaded /\ ~lazy_list'._load_attempted
                    /\ lazy_list'.items = <<>>
       /\ lastOp'.op \in LazyOps =>
            LET events == lastOp'.events
                op == lastOp'.op
                arg == lastOp'.args
                failed == lastOp'.ret.kind = "raise" /\ lastOp'.ret.exc = "Exception"
            IN  /\ lazy_list'._load_attempted
                /\ lazy_list'._configs = lazy_list._configs
                /\ IF lazy_list._loaded \/ lazy_list._load_attempted
                   THEN /\ events = <<>>
                        /\ ~failed
                        /\ lazy_list'._loaded = lazy_list._loaded
                        /\ lazy_list'.items = ItemsAfter(op, arg, lazy_list.items)
                   ELSE IF lastOp'.disabled
                   THEN /\ events = <<>>
                        /\ ~failed
                        /\ lazy_list'._loaded
                        /\ lazy_list'.items = ItemsAfter(op, arg, <<>>)
                   ELSE /\ \A i \in DOMAIN Started(events) :
                                /\ i <= Len(lazy_list._configs)
                                /\ Started(events)[i].name = lazy_list._configs[i]._name
                        /\ IF failed
                           THEN /\ ~lastOp'.dev
                                /\ ~lazy_list'._loaded
                                /\ ~events[Len(events)].ok
                                /\ lazy_list'.items = ToolsOf(events)
                           ELSE /\ lazy_list'._loaded
                                /\ Len(Started(events)) = Len(lazy_list._configs)
                                /\ lazy_list'.items = ItemsAfter(op, arg, ToolsOf(events))]_vars

\* The load of a list of two configs raised after the first tool was
\* connected, and a later len of the list connected to nothing and counted
\* that tool.
C36_Witness ==
    /\ lastOp.op = "__len__"
    /\ lastOp.events = <<>>
    /\ lastOp.ret = ReturnedCount(1)
    /\ Len(lazy_list._configs) = 2
    /\ lazy_list._load_attempted /\ ~lazy_list._loaded
    /\ lazy_list.items = <<MCPTools("docs")>>

-----------------------------------------------------------------------------
(* C37 *)

\* C37: a call of _create_mcp_with_retry makes at least one and at most
\* max_attempts connection attempts in development mode and exactly one
\* otherwise, and only its last attempt can succeed.  In development mode
\* it returns: the tool when the last attempt connected, None when it
\* failed, which only happens at attempt number max_attempts.  Otherwise
\* it returns the tool or raises the failure of its one attempt.  It
\* sleeps once between two consecutive attempts, for the base delay doubled
\* with each attempt and capped, and never after the last attempt.  The
\* operations that call it for several configs make no more attempts than
\* that for each.
C37_RetryBoundedAndBackoffBetweenAttempts ==
    /\ lastOp.op = "_create_mcp_with_retry" =>
        LET events == lastOp.events
            tries == Connections(events)
            last == tries[Len(tries)]
        IN  /\ Len(tries) >= 1
            /\ Len(tries) <= IF lastOp.dev THEN max_attempts ELSE 1
            /\ \A i \in DOMAIN tries :
                /\ tries[i].attempt = i - 1
                /\ i < Len(tries) => ~tries[i].ok
            /\ Len(events) = 2 * Len(tries) - 1
            /\ \A i \in DOMAIN events :
                IF i % 2 = 1
                THEN events[i] = tries[(i + 1) \div 2]
                ELSE /\ events[i].ev = "sleep"
                     /\ events[i].delay =
                            Min(base_delay * (2 ^ ((i \div 2) - 1)), max_delay)
            /\ last.ok => lastOp.ret = ReturnedValue(<<MCPTools(last.name)>>)
            /\ (~last.ok /\ lastOp.dev) =>
                    /\ lastOp.ret = ReturnedNone
                    /\ Len(tries) = max_attempts
            /\ (~last.ok /\ ~lastOp.dev) => lastOp.ret.kind = "raise"
    /\ lastOp.op \in LazyOps =>
        Len(Connections(lastOp.events)) <=
            (IF lastOp.dev THEN max_attempts ELSE 1) * Len(lazy_list._configs)
    /\ (lastOp.op = "get" /\ lastOp.args.name.type = "list") =>
        Len(Connections(lastOp.events)) <=
            (IF lastOp.dev THEN max_attempts ELSE 1) * Len(lastOp.args.name.items)

\* In development mode a call has failed max_attempts times, has slept
\* after the first and after the second failure and has returned None.
C37_Witness ==
    /\ lastOp.op = "_create_mcp_with_retry"
    /\ lastOp.dev
    /\ lastOp.ret = ReturnedNone
    /\ Len(Connections(lastOp.events)) = max_attempts
    /\ Len(lastOp.events) = 2 * max_attempts - 1
    /\ lastOp.events[Len(lastOp.events)].ev = "connect"

-----------------------------------------------------------------------------
(* C38 *)

FactoryOps == {"get", "get_model", "get_metadata", "list_models"}

\* The calls of the register function of provider p that returned.
Returned(calls, p) == {i \in DOMAIN calls : calls[i].provider = p /\ calls[i].ok}

\* The providers an operation needs: the base provider of a supported
\* provider for get, and every base provider for the others.
Needed(op) ==
    IF op.op = "get"
    THEN IF op.args \in DOMAIN provider_defaults THEN {ActualProvider(op.args)} ELSE {}
    ELSE provider_initializers

\* C38: over the calls of get, get_model, get_metadata and list_models, the
\* register function of a provider returns at most once; the initialized
\* providers are exactly those whose register function has returned, so a
\* provider whose register function raised stays uninitialized; an
\* initialized provider is never registered again, and an operation that
\* needs uninitialized providers calls the register function of one of
\* them, also after it raised before; a synonym is never initialized nor
\* registered itself: get of a synonym registers its base provider, and
\* the synonym has the default model of its base provider.
C38_ProviderInitializedAtMostOnce ==
    [][lastOp'.op \in FactoryOps =>
        /\ SubSeq(register_calls', 1, Len(register_calls)) = register_calls
        /\ \A p \in provider_initializers :
                Cardinality(Returned(register_calls', p)) <= 1
        /\ initialized_providers' =
                {p \in provider_initializers : Returned(register_calls', p) # {}}
        /\ \A i \in DOMAIN register_calls' :
                /\ register_calls'[i].provider \in provider_initializers
                /\ i > Len(register_calls) =>
                        /\ register_calls'[i].provider \notin initialized_providers
                        /\ \A j \in (Len(register_calls) + 1)..(i - 1) :
                                /\ register_calls'[j].ok
                                /\ register_calls'[j].provider # register_calls'[i].provider
        /\ Needed(lastOp') \ initialized_providers # {} =>
                /\ Len(register_calls') > Len(register_calls)
                /\ register_calls'[Len(register_calls) + 1].provider
                        \in Needed(lastOp') \ initialized_providers
        /\ lastOp'.ret.kind = "return" => Needed(lastOp') \subseteq initialized_providers'
        /\ \A pair \in provider_synonyms :
                provider_defaults'[pair[1]] = provider_defaults'[pair[2]]
    ]_vars

\* get("gemini") returned a model after the register function of google
\* raised in an earlier call and returned in a later one.
C38_Witness ==
    /\ lastOp.op = "get" /\ lastOp.args = "gemini" /\ lastOp.ret.kind = "return"
    /\ \E i, j \in DOMAIN register_calls :
            /\ i < j
            /\ register_calls[i] = [provider |-> "google", ok |-> FALSE]
            /\ register_calls[j] = [provider |-> "google", ok |-> TRUE]
    /\ "google" \in initialized_providers
    /\ "gemini" \notin initialized_providers
    /\ provider_defaults["gemini"] = PROVIDER_CONFIG["google"].default


====
